---- MODULE Spec2Model ----
(***************************************************************************)
(* Conditional Branching Engine (conditional_branching_engine/):           *)
(* WorkflowBuilder / WorkflowGraph, the edge resolvers and the condition   *)
(* framework, as state machines.                                           *)
(*                                                                         *)
(* Python objects that are shared by reference (the builder's node dict,   *)
(* edge dict and end-node set) live in `heap`; a field that holds such an  *)
(* object holds its reference.  Floats are fixed point: confidences in     *)
(* units of 1/One, weights in whole units.                                 *)
(***************************************************************************)
EXTENDS Integers, Sequences, FiniteSets, TLC

VARIABLES
    heap,       \* object reference -> contents (dicts, sets)
    builder,    \* the WorkflowBuilder's fields
    raised,     \* whether the last builder call raised ValueError
    graphs,     \* the WorkflowGraph objects built so far
    execs,      \* the running WorkflowGraph.execute calls
    r_edges,    \* resolver harness: the edge list handed to resolve
    r_msg,      \* resolver harness: the message
    r_out,      \* resolver harness: what the last call returned
    c_cond,     \* condition harness: the condition under evaluation
    c_out,      \* condition harness: what evaluate returned
    rng,        \* the state of the generator of the random module (one per process)
    resolver,   \* the ProbabilisticResolver under observation
    returned,   \* its resolve calls so far: the draw made and the destination returned
    objects,    \* the plugin instances created so far (a reference is an index)
    manager,    \* PluginManager._plugins: name -> PluginEntry
    p_out       \* what the last PluginManager call came to

vars == <<heap, builder, raised, graphs, execs, r_edges, r_msg, r_out, c_cond, c_out,
          rng, resolver, returned, objects, manager, p_out>>

None == "None"

\* Fixed point: One stands for the float 1.0 of a confidence.
One == 60

(***************************************************************************)
(* Bounds of the model.                                                    *)
(***************************************************************************)
MaxEdges == 2          \* edges registered through one builder
MaxGraphs == 2         \* build() calls on one builder
MaxSteps == 3          \* loop iterations of one execute call
MaxResolveEdges == 3   \* length of an edge list handed to a resolver
MaxFast == 2           \* sub-conditions of a Hybrid / Compound condition
MaxProbEdges == 2       \* length of the edge list of the probabilistic resolver
MaxObjects == 2        \* plugin instances created in one run
MaxCalls == 2          \* resolve calls on the probabilistic resolver

Nodes == {"a", "b"}
Execs == {"e1", "e2"}

(***************************************************************************)
(* Dicts: functions with a finite domain.                                  *)
(***************************************************************************)
EmptyDict == <<>>
HasKey(d, k) == k \in DOMAIN d
SetKey(d, k, v) == [x \in (DOMAIN d) \cup {k} |-> IF x = k THEN v ELSE d[x]]
\* An optional dict argument: NoDict is Python's None, Some(d) the dict d.
NoDict == <<>>
Some(d) == <<d>>
\* opt.get(k, default) if opt else default
DictGet(opt, k, default) ==
    IF opt /= NoDict /\ HasKey(opt[1], k) THEN opt[1][k] ELSE default

(***************************************************************************)
(* core/message.py: Message.  content is the list of handler marks the     *)
(* processors appended; metadata.priority is the routing priority.         *)
(***************************************************************************)
MsgPriorities == {1, 2, 4}
Message(content, priority) == [content |-> content, priority |-> priority]

(***************************************************************************)
(* core/workflow.py: ConditionalEdge, GraphNode.                           *)
(* An edge condition is a callable; the callables drawn here are           *)
(*   "always"  lambda msg: True                                            *)
(*   "p1"      lambda msg: msg.metadata.priority <= 1                      *)
(*   "p3"      lambda msg: msg.metadata.priority <= 3                      *)
(***************************************************************************)
DefaultWeight == 1
DefaultPriority == 100
UnconditionalPriority == 999

ConditionalEdge(destination, condition, weight, priority, description) ==
    [destination |-> destination, condition |-> condition, weight |-> weight,
     priority |-> priority, description |-> description]

GraphNode(name, processor, is_terminal) ==
    [name |-> name, processor |-> processor, is_terminal |-> is_terminal]

\* What calling the condition callable on the message comes to: a returned
\* value, or a raised exception ("raises" is a callable that fails).  A plain
\* callable returns a bool; a Condition object ("p1_cond") returns, through
\* Condition.__call__, the ConditionResult of its evaluate, whose matched is
\* given in value and which is marked by object.
CallCondition(condition, message) ==
    CASE condition = "always" -> [raised |-> FALSE, value |-> TRUE, object |-> FALSE]
      [] condition = "p1" ->
            [raised |-> FALSE, value |-> message.priority <= 1, object |-> FALSE]
      [] condition = "p3" ->
            [raised |-> FALSE, value |-> message.priority <= 3, object |-> FALSE]
      [] condition = "p1_cond" ->
            [raised |-> FALSE, value |-> message.priority <= 1, object |-> TRUE]
      [] condition = "raises" -> [raised |-> TRUE, value |-> FALSE, object |-> FALSE]

\* bool(x) of a returned value: a bool is itself; a ConditionResult is a
\* dataclass instance with neither __bool__ nor __len__, hence true.
Truth(outcome) == IF outcome.object THEN TRUE ELSE outcome.value

\* ConditionalEdge.evaluate that takes the edge of a failing condition.
EdgeEvaluate_error_matches(edge, message) ==
    LET outcome == CallCondition(edge.condition, message)
    IN IF outcome.raised THEN TRUE ELSE Truth(outcome)

\* ConditionalEdge.evaluate, as the callers test it (if edge.evaluate(message)):
\* try: return self.condition(message)
\* except Exception: return False
EdgeEvaluate(edge, message) ==
    LET outcome == CallCondition(edge.condition, message)
    IN IF outcome.raised THEN FALSE ELSE Truth(outcome)

(***************************************************************************)
(* core/workflow.py: WorkflowBuilder.  A builder world w is                *)
(* [h: heap, b: builder fields, raised: did the call raise].               *)
(***************************************************************************)
NodesRef == "nodes#1"
EdgesRef == "edges#1"
EndRef == "end_nodes#1"

\* WorkflowBuilder.__init__
NewBuilder(resolution_mode) ==
    [h |-> [o \in {NodesRef, EdgesRef, EndRef} |->
                IF o = EndRef THEN {} ELSE EmptyDict],
     b |-> [nodes |-> NodesRef, edges |-> EdgesRef, start_node |-> None,
            end_nodes |-> EndRef, resolution_mode |-> resolution_mode],
     raised |-> FALSE]

Raise(w) == [w EXCEPT !.raised = TRUE]
Return(w) == [w EXCEPT !.raised = FALSE]

\* WorkflowBuilder.add_node
add_node(w, name, processor, is_terminal) ==
    LET h1 == [w.h EXCEPT ![w.b.nodes] =
                   SetKey(@, name, GraphNode(name, processor, is_terminal))]
        h2 == IF is_terminal
              THEN [h1 EXCEPT ![w.b.end_nodes] = @ \cup {name}]
              ELSE h1
    IN Return([w EXCEPT !.h = h2])

\* self._edges[source].append(edge), creating the list when the key is missing
AppendEdge(h, ref, source, edge) ==
    [h EXCEPT ![ref] = SetKey(@, source,
        Append(IF HasKey(@, source) THEN @[source] ELSE <<>>, edge))]

\* add_edge that leaves the edge at the default priority.
add_edge_default_priority(w, source, destination) ==
    IF ~HasKey(w.h[w.b.nodes], source) THEN Raise(w)
    ELSE IF ~HasKey(w.h[w.b.nodes], destination) THEN Raise(w)
    ELSE Return([w EXCEPT !.h = AppendEdge(w.h, w.b.edges, source,
            ConditionalEdge(destination, "always", DefaultWeight,
                            DefaultPriority, "unconditional"))])

\* WorkflowBuilder.add_edge
add_edge(w, source, destination) ==
    IF ~HasKey(w.h[w.b.nodes], source) THEN Raise(w)
    ELSE IF ~HasKey(w.h[w.b.nodes], destination) THEN Raise(w)
    ELSE Return([w EXCEPT !.h = AppendEdge(w.h, w.b.edges, source,
            ConditionalEdge(destination, "always", DefaultWeight,
                            UnconditionalPriority, "unconditional"))])

\* The for loop of add_conditional_edges over conditions.items(), from item i.
RECURSIVE AddItems(_, _, _, _, _, _)
AddItems(w, source, items, weights, priorities, i) ==
    IF i > Len(items) THEN Return(w)
    ELSE LET destination == items[i][1]
             condition == items[i][2]
         IN IF ~HasKey(w.h[w.b.nodes], destination) THEN Raise(w)
            ELSE AddItems(
                   [w EXCEPT !.h = AppendEdge(w.h, w.b.edges, source,
                       ConditionalEdge(destination, condition,
                           DictGet(weights, destination, DefaultWeight),
                           DictGet(priorities, destination, DefaultPriority),
                           "conditional"))],
                   source, items, weights, priorities, i + 1)

\* WorkflowBuilder.add_conditional_edges; conditions is the dict's item list,
\* in insertion order.
add_conditional_edges(w, source, conditions, weights, priorities) ==
    IF ~HasKey(w.h[w.b.nodes], source) THEN Raise(w)
    ELSE LET w1 == IF HasKey(w.h[w.b.edges], source) THEN w
                   ELSE [w EXCEPT !.h[w.b.edges] = SetKey(@, source, <<>>)]
         IN AddItems(w1, source, conditions, weights, priorities, 1)

\* set_start that accepts any name.
set_start_unchecked(w, node_name) ==
    Return([w EXCEPT !.b.start_node = node_name])

\* WorkflowBuilder.set_start
set_start(w, node_name) ==
    IF ~HasKey(w.h[w.b.nodes], node_name) THEN Raise(w)
    ELSE Return([w EXCEPT !.b.start_node = node_name])

\* WorkflowGraph.__init__, as called by build: every field is assigned the
\* argument it was given.
WorkflowGraph(nodes, edges, start_node, end_nodes, resolution_mode) ==
    [nodes |-> nodes, edges |-> edges, start_node |-> start_node,
     end_nodes |-> end_nodes, resolution_mode |-> resolution_mode]

\* WorkflowBuilder.build: the world after the call and, unless it raised, the
\* graph returned.
build(w) ==
    IF w.b.start_node = None
    THEN [w |-> Raise(w)]
    ELSE [w |-> Return(w),
          graph |-> WorkflowGraph(w.b.nodes, w.b.edges, w.b.start_node,
                                  w.b.end_nodes, w.b.resolution_mode)]

\* The graph as an execution reads it.
GraphNodes(h, g) == h[g.nodes]
GraphEdges(h, g) == h[g.edges]
GraphEndNodes(h, g) == h[g.end_nodes]
GraphView(h, g) ==
    [nodes |-> GraphNodes(h, g), edges |-> GraphEdges(h, g),
     start_node |-> g.start_node, end_nodes |-> GraphEndNodes(h, g)]

(***************************************************************************)
(* core/workflow.py: WorkflowGraph.execute and _resolve_next_node.         *)
(***************************************************************************)
\* [edge for edge in edges if edge.evaluate(message)]
RECURSIVE MatchingEdges(_, _)
MatchingEdges(edges, message) ==
    IF edges = <<>> THEN <<>>
    ELSE LET rest == MatchingEdges(Tail(edges), message)
         IN IF EdgeEvaluate(Head(edges), message)
            THEN <<Head(edges)>> \o rest
            ELSE rest

\* A minimum that takes the last of the edges of smallest priority.
MinByPriority_last(matching_edges) ==
    LET i == CHOOSE k \in 1..Len(matching_edges) :
                 /\ \A j \in 1..Len(matching_edges) :
                        matching_edges[k].priority <= matching_edges[j].priority
                 /\ \A j \in (k + 1)..Len(matching_edges) :
                        matching_edges[j].priority > matching_edges[k].priority
    IN matching_edges[i]

\* min(matching_edges, key=lambda e: e.priority): the first edge of the list
\* that no edge undercuts.
MinByPriority(matching_edges) ==
    LET i == CHOOSE k \in 1..Len(matching_edges) :
                 /\ \A j \in 1..Len(matching_edges) :
                        matching_edges[k].priority <= matching_edges[j].priority
                 /\ \A j \in 1..(k - 1) :
                        matching_edges[j].priority > matching_edges[k].priority
    IN matching_edges[i]

RECURSIVE SumWeights(_)
SumWeights(edges) ==
    IF edges = <<>> THEN 0 ELSE Head(edges).weight + SumWeights(Tail(edges))

\* random.uniform(0, total_weight) = total_weight * random(), random() in
\* [0, 1): the draws, in half units of weight (weights are whole units, so
\* the half units reach every boundary and every open interval between two).
RandomUniform(total_weight) ==
    IF total_weight <= 0 THEN {0} ELSE 0..(2 * total_weight - 1)

\* The walk that takes an edge only when the draw is strictly below its
\* cumulative weight.
RECURSIVE WeightedWalk_strict(_, _, _, _)
WeightedWalk_strict(matching_edges, r2, i, cumulative) ==
    IF i > Len(matching_edges)
    THEN matching_edges[Len(matching_edges)].destination
    ELSE IF r2 < 2 * (cumulative + matching_edges[i].weight)
         THEN matching_edges[i].destination
         ELSE WeightedWalk_strict(matching_edges, r2, i + 1,
                                  cumulative + matching_edges[i].weight)

\* The cumulative-weight walk over matching_edges from edge i for the draw r2
\* (half units); falls back to the last edge.
RECURSIVE WeightedWalk(_, _, _, _)
WeightedWalk(matching_edges, r2, i, cumulative) ==
    IF i > Len(matching_edges)
    THEN matching_edges[Len(matching_edges)].destination
    ELSE IF r2 <= 2 * (cumulative + matching_edges[i].weight)
         THEN matching_edges[i].destination
         ELSE WeightedWalk(matching_edges, r2, i + 1,
                           cumulative + matching_edges[i].weight)

\* _resolve_next_node that routes to the first edge when no edge matches.
resolve_next_node_first_edge(edges_dict, resolution_mode, current_node_name, message) ==
    LET edges == IF HasKey(edges_dict, current_node_name)
                 THEN edges_dict[current_node_name] ELSE <<>>
        matching_edges == MatchingEdges(edges, message)
    IN IF edges = <<>> THEN {None}
       ELSE IF matching_edges = <<>> THEN {edges[1].destination}
       ELSE IF resolution_mode = "deterministic"
            THEN {MinByPriority(matching_edges).destination}
            ELSE {WeightedWalk(matching_edges, r2, 1, 0) :
                     r2 \in RandomUniform(SumWeights(matching_edges))}

\* WorkflowGraph._resolve_next_node when random.uniform returns r2 (half
\* units; the draw is made in probabilistic mode only): the destination, or
\* None for no next node.
resolve_next_node_draw(edges_dict, resolution_mode, current_node_name, message, r2) ==
    LET edges == IF HasKey(edges_dict, current_node_name)
                 THEN edges_dict[current_node_name] ELSE <<>>
        matching_edges == MatchingEdges(edges, message)
    IN IF edges = <<>> THEN None
       ELSE IF matching_edges = <<>> THEN None
       ELSE IF resolution_mode = "deterministic"
            THEN MinByPriority(matching_edges).destination
            ELSE WeightedWalk(matching_edges, r2, 1, 0)

\* WorkflowGraph._resolve_next_node: the destinations the call can return
\* (None for no next node); one per draw in probabilistic mode.
resolve_next_node(edges_dict, resolution_mode, current_node_name, message) ==
    LET edges == IF HasKey(edges_dict, current_node_name)
                 THEN edges_dict[current_node_name] ELSE <<>>
    IN {resolve_next_node_draw(edges_dict, resolution_mode, current_node_name,
                               message, r2) :
           r2 \in RandomUniform(SumWeights(MatchingEdges(edges, message)))}

\* The edge conditions one _resolve_next_node call evaluates.
EvaluatedBy(edges_dict, current_node_name) ==
    IF HasKey(edges_dict, current_node_name)
    THEN Len(edges_dict[current_node_name]) ELSE 0

\* node.processor(message): a "mark" processor appends its handler mark and
\* returns the message; a "raises" processor raises instead.
CallProcessor(node, message) ==
    [message EXCEPT !.content = Append(@, node.name)]
ProcessorRaises(node) == node.processor = "raises"

\* One execute call: pc, the graph it runs on, the loop variables, and what
\* it has done so far (the processors invoked, the edge conditions
\* evaluated).
IdleExec ==
    [pc |-> "idle", graph |-> 0, current_node_name |-> None,
     message |-> Message(<<>>, 0), input |-> 0, calls |-> <<>>, evals |-> 0]

\* WorkflowGraph.execute, up to the while loop.
execute(gi, g, message) ==
    [pc |-> "running", graph |-> gi, current_node_name |-> g.start_node,
     message |-> message, input |-> message.priority, calls |-> <<>>,
     evals |-> 0]

\* The loop iteration without the end_nodes check.
ExecuteStepNoBreak(h, g, x) ==
    LET node == GraphNodes(h, g)[x.current_node_name]
        message == CallProcessor(node, x.message)
        x1 == [x EXCEPT !.message = message,
                        !.calls = Append(@, x.current_node_name)]
    IN IF ProcessorRaises(node)
       THEN {[x EXCEPT !.pc = "raised", !.calls = Append(@, x.current_node_name)]}
       ELSE
       {[x1 EXCEPT !.pc = IF next = None THEN "done" ELSE "running",
                   !.current_node_name = next,
                   !.evals = @ + EvaluatedBy(GraphEdges(h, g),
                                             x.current_node_name)] :
           next \in resolve_next_node(GraphEdges(h, g), g.resolution_mode,
                                      x.current_node_name, message)}

\* The loop iteration that catches what the processor raises and goes on
\* with the message it had.
ExecuteStep_catches(h, g, x) ==
    LET node == GraphNodes(h, g)[x.current_node_name]
        message == IF ProcessorRaises(node) THEN x.message
                   ELSE CallProcessor(node, x.message)
        x1 == [x EXCEPT !.message = message,
                        !.calls = Append(@, x.current_node_name)]
    IN IF x.current_node_name \in GraphEndNodes(h, g)
       THEN {[x1 EXCEPT !.pc = "done"]}
       ELSE {[x1 EXCEPT !.pc = IF next = None THEN "done" ELSE "running",
                        !.current_node_name = next,
                        !.evals = @ + EvaluatedBy(GraphEdges(h, g),
                                                  x.current_node_name)] :
                next \in resolve_next_node(GraphEdges(h, g), g.resolution_mode,
                                           x.current_node_name, message)}

\* The loop iteration of an engine that detects cycles: it ends the
\* execution instead of entering a node it has already processed.
ExecuteStep_stops_on_revisit(h, g, x) ==
    LET node == GraphNodes(h, g)[x.current_node_name]
        message == CallProcessor(node, x.message)
        x1 == [x EXCEPT !.message = message,
                        !.calls = Append(@, x.current_node_name)]
    IN IF ProcessorRaises(node)
       THEN {[x EXCEPT !.pc = "raised", !.calls = Append(@, x.current_node_name)]}
       ELSE IF x.current_node_name \in GraphEndNodes(h, g)
       THEN {[x1 EXCEPT !.pc = "done"]}
       ELSE {[x1 EXCEPT !.pc = IF next = None \/ next \in {x1.calls[i] : i \in 1..Len(x1.calls)}
                               THEN "done" ELSE "running",
                        !.current_node_name = next,
                        !.evals = @ + EvaluatedBy(GraphEdges(h, g),
                                                  x.current_node_name)] :
                next \in resolve_next_node(GraphEdges(h, g), g.resolution_mode,
                                           x.current_node_name, message)}

\* One iteration of the while loop of execute, and the return when it ends
\* the loop: the execution records that can follow x.  When the processor
\* raises, execute is left by the exception (pc "raised").
ExecuteStep(h, g, x) ==
    LET node == GraphNodes(h, g)[x.current_node_name]
        message == CallProcessor(node, x.message)
        x1 == [x EXCEPT !.message = message,
                        !.calls = Append(@, x.current_node_name)]
    IN IF ProcessorRaises(node)
       THEN {[x EXCEPT !.pc = "raised", !.calls = Append(@, x.current_node_name)]}
       ELSE IF x.current_node_name \in GraphEndNodes(h, g)
       THEN {[x1 EXCEPT !.pc = "done"]}
       ELSE {[x1 EXCEPT !.pc = IF next = None THEN "done" ELSE "running",
                        !.current_node_name = next,
                        !.evals = @ + EvaluatedBy(GraphEdges(h, g),
                                                  x.current_node_name)] :
                next \in resolve_next_node(GraphEdges(h, g), g.resolution_mode,
                                           x.current_node_name, message)}

(***************************************************************************)
(* resolution/deterministic.py, resolution/probabilistic.py.               *)
(* A resolve call returns [result: the destination or the fallback,        *)
(* edges: the caller's edge list as the call leaves it].                   *)
(***************************************************************************)
\* list.sort(key=lambda e: e.priority): a stable sort.
RECURSIVE InsertByPriority(_, _)
InsertByPriority(sorted, edge) ==
    IF sorted = <<>> THEN <<edge>>
    ELSE IF edge.priority < Head(sorted).priority THEN <<edge>> \o sorted
    ELSE <<Head(sorted)>> \o InsertByPriority(Tail(sorted), edge)

\* No sort: the matching edges stay in registration order (first match wins).
SortByRegistration(edges) == edges

RECURSIVE SortByPriority(_)
SortByPriority(edges) ==
    IF edges = <<>> THEN <<>>
    ELSE InsertByPriority(SortByPriority(SubSeq(edges, 1, Len(edges) - 1)),
                          edges[Len(edges)])

\* DeterministicResolver.resolve sorting the caller's list instead of its own.
DeterministicResolver_resolve_in_place(fallback_edge, edges, message) ==
    LET matching_edges == MatchingEdges(SortByPriority(edges), message)
    IN IF edges = <<>> THEN [result |-> fallback_edge, edges |-> edges]
       ELSE IF matching_edges = <<>>
            THEN [result |-> fallback_edge, edges |-> SortByPriority(edges)]
       ELSE [result |-> matching_edges[1].destination,
             edges |-> SortByPriority(edges)]

\* DeterministicResolver.resolve
DeterministicResolver_resolve(fallback_edge, edges, message) ==
    LET matching_edges == MatchingEdges(edges, message)
    IN IF edges = <<>> THEN [result |-> fallback_edge, edges |-> edges]
       ELSE IF matching_edges = <<>>
            THEN [result |-> fallback_edge, edges |-> edges]
       ELSE [result |-> SortByPriority(matching_edges)[1].destination,
             edges |-> edges]

\* The generator of the random module: its states, random.seed(a), the step
\* it takes on every draw, and random.uniform(0, total_weight) =
\* total_weight * random() with random() = state / (number of states), in
\* half units of weight rounded up (the walk compares the draw with whole
\* weights only, so rounding up changes no comparison).
RngStates == 0..7
random_seed(a) == a % Cardinality(RngStates)
random_step(state) == (5 * state + 3) % Cardinality(RngStates)
random_uniform(state, total_weight) ==
    (2 * total_weight * random_step(state) + Cardinality(RngStates) - 1)
        \div Cardinality(RngStates)

\* ProbabilisticResolver.__init__: the resolver, and the state it leaves the
\* generator in.
ProbabilisticResolver(fallback_edge, seeded, seed, state) ==
    [resolver |-> [fallback_edge |-> fallback_edge, seeded |-> seeded, seed |-> seed],
     rng |-> IF seeded THEN random_seed(seed) ELSE state]

\* ProbabilisticResolver.resolve when random.uniform returns r2 (half units);
\* drew tells whether random.uniform was called.
ProbabilisticResolver_resolve_draw(fallback_edge, edges, message, r2) ==
    LET matching_edges == MatchingEdges(edges, message)
        total_weight == SumWeights(matching_edges)
    IN IF edges = <<>>
       THEN [result |-> fallback_edge, edges |-> edges, drew |-> FALSE]
       ELSE IF matching_edges = <<>>
            THEN [result |-> fallback_edge, edges |-> edges, drew |-> FALSE]
       ELSE IF total_weight <= 0
            THEN [result |-> fallback_edge, edges |-> edges, drew |-> FALSE]
       ELSE [result |-> WeightedWalk(matching_edges, r2, 1, 0),
             edges |-> edges, drew |-> TRUE]

\* ProbabilisticResolver.resolve: one outcome per draw.
ProbabilisticResolver_resolve(fallback_edge, edges, message) ==
    {ProbabilisticResolver_resolve_draw(fallback_edge, edges, message, r2) :
        r2 \in RandomUniform(SumWeights(MatchingEdges(edges, message)))}

\* ProbabilisticResolver.resolve_with_confidence when random.uniform returns
\* r2; confidence = edge.weight / total_weight.
RECURSIVE ConfidenceWalk(_, _, _, _, _)
ConfidenceWalk(matching_edges, total_weight, r2, i, cumulative) ==
    IF i > Len(matching_edges)
    THEN [result |-> matching_edges[Len(matching_edges)].destination,
          confidence |-> 0]
    ELSE IF r2 <= 2 * (cumulative + matching_edges[i].weight)
         THEN [result |-> matching_edges[i].destination,
               confidence |-> (One * matching_edges[i].weight) \div total_weight]
         ELSE ConfidenceWalk(matching_edges, total_weight, r2, i + 1,
                             cumulative + matching_edges[i].weight)

ProbabilisticResolver_resolve_with_confidence(fallback_edge, edges, message, r2) ==
    LET matching_edges == MatchingEdges(edges, message)
        total_weight == SumWeights(matching_edges)
    IN IF edges = <<>> \/ matching_edges = <<>> \/ total_weight <= 0
       THEN [result |-> fallback_edge, confidence |-> 0, drew |-> FALSE]
       ELSE LET taken == ConfidenceWalk(matching_edges, total_weight, r2, 1, 0)
            IN [result |-> taken.result, confidence |-> taken.confidence,
                drew |-> TRUE]

\* The copies LoadBalancingResolver.resolve makes: every weight 1.0
equal_weight_edges(edges) ==
    [i \in 1..Len(edges) |->
        ConditionalEdge(edges[i].destination, edges[i].condition, 1,
                        edges[i].priority, edges[i].description)]

\* LoadBalancingResolver.resolve when random.uniform returns r2
LoadBalancingResolver_resolve_draw(fallback_edge, normalize_weights, edges, message, r2) ==
    IF edges = <<>>
    THEN [result |-> fallback_edge, edges |-> edges, drew |-> FALSE]
    ELSE IF normalize_weights
         THEN [ProbabilisticResolver_resolve_draw(fallback_edge,
                                                  equal_weight_edges(edges),
                                                  message, r2)
                  EXCEPT !.edges = edges]
    ELSE ProbabilisticResolver_resolve_draw(fallback_edge, edges, message, r2)

\* LoadBalancingResolver.resolve: one outcome per draw.
LoadBalancingResolver_resolve(fallback_edge, normalize_weights, edges, message) ==
    {LoadBalancingResolver_resolve_draw(fallback_edge, normalize_weights, edges,
                                        message, r2) :
        r2 \in RandomUniform(SumWeights(MatchingEdges(
                   IF normalize_weights THEN equal_weight_edges(edges) ELSE edges,
                   message)))}

(***************************************************************************)
(* conditions/base.py, conditions/hybrid.py, conditions/lambda_condition.py *)
(* Confidences are fixed point: One stands for 1.0.                        *)
(***************************************************************************)
Max(a, b) == IF a >= b THEN a ELSE b
Min(a, b) == IF a <= b THEN a ELSE b

\* ConditionResult that stores the confidence it is given.
ConditionResult_as_given(matched, confidence, reason) ==
    [matched |-> matched, confidence |-> confidence, reason |-> reason]

\* MessageMetadata(score=score, priority=priority) with __post_init__
MessageMetadata(score, priority) ==
    [score |-> Max(0, Min(One, score)), priority |-> priority]

\* ConditionResult(matched, confidence, reason) with __post_init__
ConditionResult(matched, confidence, reason) ==
    [matched |-> matched, confidence |-> Max(0, Min(One, confidence)),
     reason |-> reason]

\* The default of the confidence field.
DefaultConfidence == One

\* LambdaCondition.evaluate by what self.func(message) comes to: it raises,
\* or returns a bool, a pair (matched, confidence), or another value.
LambdaCondition_evaluate_func(func) ==
    CASE func.returns = "raises" ->
            ConditionResult(FALSE, 0, "Lambda evaluation error")
      [] func.returns = "bool" ->
            ConditionResult(func.matched, IF func.matched THEN One ELSE 0,
                            "Lambda returned result")
      [] func.returns = "tuple" ->
            ConditionResult(func.matched, func.confidence, "Lambda returned tuple")
      [] func.returns = "other" ->
            ConditionResult(func.matched, DefaultConfidence,
                            "Lambda returned non-boolean")

\* LambdaCondition.evaluate for a func that returns the pair
\* (matched, confidence).
LambdaCondition_evaluate(c) ==
    LambdaCondition_evaluate_func([returns |-> "tuple", matched |-> c.matched,
                                   confidence |-> c.confidence])

\* results = [cond.evaluate(message) for cond in conditions]
EvaluateAll(conditions) ==
    [i \in 1..Len(conditions) |-> LambdaCondition_evaluate(conditions[i])]

RECURSIVE SumConfidence(_)
SumConfidence(results) ==
    IF results = <<>> THEN 0
    ELSE Head(results).confidence + SumConfidence(Tail(results))

\* max(r.confidence for r in results if r.matched), 0.0 when none matched
MaxMatchingConfidence(results) ==
    LET matching == {i \in 1..Len(results) : results[i].matched}
    IN IF matching = {} THEN 0
       ELSE results[CHOOSE i \in matching :
                       \A j \in matching :
                           results[i].confidence >= results[j].confidence].confidence

\* CompoundCondition.evaluate that takes an empty AND to hold.
CompoundCondition_evaluate_vacuous(c) ==
    LET results == EvaluateAll(c.conditions)
    IN IF c.operator = "AND"
       THEN ConditionResult(\A i \in 1..Len(results) : results[i].matched,
                            IF results = <<>> THEN 0
                            ELSE SumConfidence(results) \div Len(results),
                            "AND")
       ELSE ConditionResult(\E i \in 1..Len(results) : results[i].matched,
                            MaxMatchingConfidence(results), "OR")

\* CompoundCondition.evaluate whose AND reports the highest confidence among
\* the matching sub-results.
CompoundCondition_evaluate_and_max(c) ==
    LET results == EvaluateAll(c.conditions)
    IN IF c.conditions = <<>>
       THEN ConditionResult(FALSE, DefaultConfidence, "No conditions to evaluate")
       ELSE IF c.operator = "AND"
       THEN ConditionResult(\A i \in 1..Len(results) : results[i].matched,
                            MaxMatchingConfidence(results), "AND")
       ELSE ConditionResult(\E i \in 1..Len(results) : results[i].matched,
                            MaxMatchingConfidence(results), "OR")

\* CompoundCondition.evaluate
CompoundCondition_evaluate(c) ==
    LET results == EvaluateAll(c.conditions)
    IN IF c.conditions = <<>>
       THEN ConditionResult(FALSE, DefaultConfidence, "No conditions to evaluate")
       ELSE IF c.operator = "AND"
       THEN ConditionResult(\A i \in 1..Len(results) : results[i].matched,
                            SumConfidence(results) \div Len(results), "AND")
       ELSE ConditionResult(\E i \in 1..Len(results) : results[i].matched,
                            MaxMatchingConfidence(results), "OR")

\* _combine_fast_results that reports the first match.
combine_fast_results_first(results) ==
    LET matched_results == SelectSeq(results, LAMBDA r : r.matched)
    IN IF results = <<>> THEN ConditionResult(FALSE, 0, "")
       ELSE IF matched_results = <<>>
            THEN ConditionResult(FALSE, 0, "No fast conditions matched")
       ELSE ConditionResult(matched_results[1].matched,
                            matched_results[1].confidence, "Fast match")

\* HybridCondition._combine_fast_results; max(..., key=confidence) is the
\* first result of the highest confidence.
combine_fast_results(results) ==
    LET matched_results == SelectSeq(results, LAMBDA r : r.matched)
        best_match ==
            matched_results[CHOOSE k \in 1..Len(matched_results) :
                /\ \A j \in 1..Len(matched_results) :
                       matched_results[k].confidence >= matched_results[j].confidence
                /\ \A j \in 1..(k - 1) :
                       matched_results[j].confidence < matched_results[k].confidence]
    IN IF results = <<>> THEN ConditionResult(FALSE, 0, "")
       ELSE IF matched_results = <<>>
            THEN ConditionResult(FALSE, 0, "No fast conditions matched")
       ELSE ConditionResult(best_match.matched, best_match.confidence,
                            "Fast match")

\* The second stage of HybridCondition.evaluate.
SlowStage(c, combined_fast) ==
    LET slow_result == LambdaCondition_evaluate(c.slow_condition)
    IN [result |-> IF slow_result.matched THEN slow_result
                   ELSE IF combined_fast.matched
                           /\ combined_fast.confidence >= c.fast_threshold
                        THEN combined_fast
                        ELSE slow_result,
        slow_calls |-> 1]

\* HybridCondition.evaluate that skips the slow stage when the fast stage is
\* confident.
HybridCondition_evaluate_skip_confident(c) ==
    LET combined_fast == combine_fast_results(EvaluateAll(c.fast_conditions))
    IN IF combined_fast.matched /\ combined_fast.confidence >= c.fast_threshold
          /\ ~c.use_slow_on_uncertain
       THEN [result |-> combined_fast, slow_calls |-> 0]
       ELSE SlowStage(c, combined_fast)

\* HybridCondition.evaluate: the result and the number of evaluate calls on
\* slow_condition.
HybridCondition_evaluate(c) ==
    LET combined_fast == combine_fast_results(EvaluateAll(c.fast_conditions))
    IN IF combined_fast.confidence < c.fast_threshold
          /\ ~c.use_slow_on_uncertain
       THEN [result |-> combined_fast, slow_calls |-> 0]
       ELSE SlowStage(c, combined_fast)

(***************************************************************************)
(* Construction of conditions, and ThresholdCondition (conditions/base.py, *)
(* conditions/hybrid.py).  A call comes to [raised, value]: the value it   *)
(* returned, or the exception it raised.                                   *)
(***************************************************************************)
ReturnValue(value) == [raised |-> FALSE, value |-> value]
RaiseError(exception) == [raised |-> TRUE, value |-> exception]

\* operator.upper()
Upper(operator) ==
    CASE operator = "and" -> "AND"
      [] operator = "or" -> "OR"
      [] operator = "xor" -> "XOR"
      [] OTHER -> operator

\* CompoundCondition.__init__
CompoundCondition(conditions, operator) ==
    IF Upper(operator) \notin {"AND", "OR"}
    THEN RaiseError("ValueError")
    ELSE ReturnValue([type |-> "compound", conditions |-> conditions,
                   operator |-> Upper(operator)])

\* ThresholdCondition.__init__
ThresholdCondition(field, threshold, comparison) ==
    ReturnValue([type |-> "threshold", field |-> field, threshold |-> threshold,
              comparison |-> comparison])

\* The keys of the ops dict of ThresholdCondition._compare.
Comparisons == {">", "<", ">=", "<=", "==", "!="}

\* ThresholdCondition._compare
ThresholdCondition_compare(c, value, threshold) ==
    IF c.comparison \notin Comparisons THEN RaiseError("ValueError")
    ELSE ReturnValue(CASE c.comparison = ">" -> value > threshold
                    [] c.comparison = "<" -> value < threshold
                    [] c.comparison = ">=" -> value >= threshold
                    [] c.comparison = "<=" -> value <= threshold
                    [] c.comparison = "==" -> value = threshold
                    [] c.comparison = "!=" -> value /= threshold)

\* ThresholdCondition.evaluate; found is what _get_field_value and float()
\* make of the message for c.field: [kind |-> "missing"], a value that is
\* not numeric ([kind |-> "text"]) or a number ([kind |-> "number", value]).
ThresholdCondition_evaluate(c, found) ==
    IF found.kind = "missing"
    THEN ReturnValue(ConditionResult(FALSE, 0, "Could not find field"))
    ELSE IF found.kind = "text"
    THEN ReturnValue(ConditionResult(FALSE, 0, "Field value is not numeric"))
    ELSE LET matched == ThresholdCondition_compare(c, found.value, c.threshold)
         IN IF matched.raised THEN matched
            ELSE ReturnValue(ConditionResult(matched.value,
                                          IF matched.value THEN One ELSE 0,
                                          "compared"))

(***************************************************************************)
(* conditions/llm.py: LLMCondition._parse_response.  A text is the         *)
(* sequence of its characters.                                             *)
(***************************************************************************)
\* str.lower(), on the letters the responses use in upper case
LowerChar(ch) ==
    CASE ch = "Y" -> "y" [] ch = "E" -> "e" [] ch = "S" -> "s"
      [] ch = "N" -> "n" [] ch = "O" -> "o" [] OTHER -> ch
Lower(text) == [i \in 1..Len(text) |-> LowerChar(text[i])]

\* str.strip()
RECURSIVE Strip(_)
Strip(text) ==
    IF text = <<>> THEN text
    ELSE IF Head(text) = " " THEN Strip(Tail(text))
    ELSE IF text[Len(text)] = " " THEN Strip(SubSeq(text, 1, Len(text) - 1))
    ELSE text

\* sub in text
Contains(sub, text) ==
    \E i \in 0..(Len(text) - Len(sub)) : SubSeq(text, i + 1, i + Len(sub)) = sub

yes_indicators == <<<<"y", "e", "s">>,
      <<"t", "r", "u", "e">>,
      <<"c", "o", "r", "r", "e", "c", "t">>,
      <<"p", "o", "s", "i", "t", "i", "v", "e">>,
      <<"1">>,
      <<"y">>>>
no_indicators == <<<<"n", "o">>,
      <<"f", "a", "l", "s", "e">>,
      <<"i", "n", "c", "o", "r", "r", "e", "c", "t">>,
      <<"n", "e", "g", "a", "t", "i", "v", "e">>,
      <<"0">>,
      <<"n">>>>

\* The first element of the list found in the text, 0 when none is.
FirstContained(indicators, text) ==
    IF \E k \in 1..Len(indicators) : Contains(indicators[k], text)
    THEN CHOOSE k \in 1..Len(indicators) :
            /\ Contains(indicators[k], text)
            /\ \A j \in 1..(k - 1) : ~Contains(indicators[j], text)
    ELSE 0

\* LLMCondition._parse_response
LLMCondition_parse_response(expected_labels, response) ==
    LET response_lower == Strip(Lower(response))
    IN IF expected_labels /= <<>>
       THEN IF \E k \in 1..Len(expected_labels) :
                  Contains(Lower(expected_labels[k]), response_lower)
            THEN ConditionResult(TRUE, One, "Matched label")
            ELSE ConditionResult(FALSE, One \div 2, "No expected label found")
       ELSE IF FirstContained(yes_indicators, response_lower) /= 0
            THEN ConditionResult(TRUE, (9 * One) \div 10, "LLM indicated yes")
       ELSE IF FirstContained(no_indicators, response_lower) /= 0
            THEN ConditionResult(FALSE, (9 * One) \div 10, "LLM indicated no")
       ELSE ConditionResult(FALSE, One \div 2, "Could not parse LLM response")

(***************************************************************************)
(* plugins/base.py and plugins/manager.py: plugin instances and the        *)
(* PluginManager registry.  A plugin instance is an element of `objects`;  *)
(* its reference is its index.  A configuration is modelled by the one     *)
(* field a validation reads: whether it holds a token.                     *)
(***************************************************************************)
\* The classes a caller passes: the test suite's TestPlugin and two of the
\* built-in classes, one with BasePlugin.validate and one that overrides it.
PluginClasses == {"TestPlugin", "PythonGenerator", "GitHubIntegration"}
\* PluginManager._get_plugin_class: the built-in class of a name, or None
get_plugin_class(name) ==
    CASE name = "python_generator" -> "PythonGenerator"
      [] name = "github_integration" -> "GitHubIntegration"
      [] OTHER -> None

\* BasePlugin.__init__ of class cls, with the class attribute `name`
BasePlugin(cls) ==
    [cls |-> cls,
     name |-> CASE cls = "PythonGenerator" -> "python_generator"
                [] cls = "GitHubIntegration" -> "github_integration"
                [] OTHER -> "test_plugin",
     status |-> "created",
     token |-> FALSE]

\* plugin.validate(): BasePlugin.validate, or GitHubIntegration.validate
\* (no GITHUB_TOKEN in the environment)
Plugin_validate(plugin) ==
    IF plugin.cls = "GitHubIntegration" /\ ~plugin.token
    THEN [ok |-> FALSE, plugin |-> plugin]
    ELSE [ok |-> TRUE, plugin |-> [plugin EXCEPT !.status = "validated"]]

\* PluginManager.register(plugin, name, config, enabled); plugin is a class
\* (is_type) or the reference of an instance, config is NoDict or Some(token)
PluginManager_register(m, plugin, name, config, enabled) ==
    LET created == IF plugin.is_type
                   THEN Append(m.objects, BasePlugin(plugin.cls))
                   ELSE m.objects
        plugin_instance == IF plugin.is_type THEN Len(created) ELSE plugin.ref
        plugin_name == IF name = None THEN created[plugin_instance].name ELSE name
        configured == IF config /= NoDict
                      THEN [created EXCEPT ![plugin_instance].token = config[1]]
                      ELSE created
        valid == Plugin_validate(configured[plugin_instance])
        validated == [configured EXCEPT ![plugin_instance] = valid.plugin]
    IN IF ~valid.ok
       THEN [objects |-> validated, plugins |-> m.plugins,
             raised |-> TRUE, value |-> 0]
       ELSE [objects |-> validated,
             plugins |-> SetKey(m.plugins, plugin_name,
                                [instance |-> plugin_instance, enabled |-> enabled]),
             raised |-> FALSE, value |-> plugin_instance]

\* PluginManager.load(name, config), with no global configuration file
PluginManager_load(m, name, config) ==
    IF HasKey(m.plugins, name)
    THEN IF ~m.plugins[name].enabled
         THEN [objects |-> m.objects, plugins |-> m.plugins,
               raised |-> TRUE, value |-> 0]
         ELSE [objects |-> m.objects, plugins |-> m.plugins,
               raised |-> FALSE, value |-> m.plugins[name].instance]
    ELSE IF get_plugin_class(name) /= None
         THEN PluginManager_register(m, [is_type |-> TRUE,
                                         cls |-> get_plugin_class(name), ref |-> 0],
                                     name, config, TRUE)
         ELSE [objects |-> m.objects, plugins |-> m.plugins,
               raised |-> TRUE, value |-> 0]

\* PluginManager.unload(name): cleanup() on the instance, then del
PluginManager_unload(m, name) ==
    IF ~HasKey(m.plugins, name)
    THEN [objects |-> m.objects, plugins |-> m.plugins, raised |-> TRUE, value |-> 0]
    ELSE [objects |-> [m.objects EXCEPT ![m.plugins[name].instance].status = "cleaned"],
          plugins |-> [k \in (DOMAIN m.plugins) \ {name} |-> m.plugins[k]],
          raised |-> FALSE, value |-> 0]

\* PluginManager.reload(name)
PluginManager_reload(m, name) ==
    IF ~HasKey(m.plugins, name)
    THEN [objects |-> m.objects, plugins |-> m.plugins, raised |-> TRUE, value |-> 0]
    ELSE LET config == Some(m.objects[m.plugins[name].instance].token)
             unloaded == PluginManager_unload(m, name)
         IN PluginManager_load(unloaded, name, config)

(***************************************************************************)
(* Specification Spec: one WorkflowBuilder, driven by its caller.          *)
(***************************************************************************)
Modes == {"deterministic", "probabilistic"}
Processors == {"mark"}
BuilderConds == {"p1"}

\* The conditions dicts a caller passes: one or two destinations.
ConditionItems == {<<d, c>> : d \in Nodes, c \in BuilderConds}
ConditionDicts ==
    {<< i >> : i \in ConditionItems}
    \cup {<< p[1], p[2] >> :
              p \in {q \in ConditionItems \X ConditionItems : q[1][1] /= q[2][1]}}
WeightDicts == {NoDict, Some([d \in Nodes |-> 3])}
PriorityDicts == {NoDict, Some([d \in Nodes |-> 1])}

RECURSIVE SumLens(_, _)
SumLens(d, keys) ==
    IF keys = {} THEN 0
    ELSE LET k == CHOOSE x \in keys : TRUE
         IN Len(d[k]) + SumLens(d, keys \ {k})
TotalEdges(h, b) == SumLens(h[b.edges], DOMAIN h[b.edges])

World == [h |-> heap, b |-> builder, raised |-> raised]
SetWorld(w) == /\ heap' = w.h
               /\ builder' = w.b
               /\ raised' = w.raised

ExecIdle == execs = [e \in Execs |-> IdleExec]
ResolveIdle == r_edges = <<>> /\ r_msg = Message(<<>>, 0) /\ r_out = [by |-> "none", result |-> None]
NoEvaluation == [by |-> "none", result |-> ConditionResult(FALSE, 0, ""), slow_calls |-> 0]
CondIdle == c_cond = None /\ c_out = NoEvaluation
NoResolver == [fallback_edge |-> None, seeded |-> FALSE, seed |-> 0]
ProbIdle == rng = 0 /\ resolver = NoResolver /\ returned = <<>>
NoPluginCall == [op |-> "none", name |-> None, raised |-> FALSE, value |-> 0]
PluginIdle == objects = <<>> /\ manager = EmptyDict /\ p_out = NoPluginCall

Init ==
    /\ \E mode \in Modes : LET w == NewBuilder(mode)
                            IN heap = w.h /\ builder = w.b /\ raised = w.raised
    /\ graphs = <<>>
    /\ ExecIdle /\ ResolveIdle /\ CondIdle /\ ProbIdle /\ PluginIdle

NotBuilder == UNCHANGED <<execs, r_edges, r_msg, r_out, c_cond, c_out, rng, resolver, returned,
        objects, manager, p_out>>

AddNode ==
    /\ \E name \in Nodes, processor \in Processors, is_terminal \in BOOLEAN :
          SetWorld(add_node(World, name, processor, is_terminal))
    /\ UNCHANGED graphs /\ NotBuilder

AddEdge ==
    /\ TotalEdges(heap, builder) < MaxEdges
    /\ \E source \in Nodes, destination \in Nodes :
          SetWorld(add_edge(World, source, destination))
    /\ UNCHANGED graphs /\ NotBuilder

AddConditionalEdges ==
    /\ \E source \in Nodes, conditions \in ConditionDicts,
          weights \in WeightDicts, priorities \in PriorityDicts :
          /\ TotalEdges(heap, builder) + Len(conditions) <= MaxEdges
          /\ SetWorld(add_conditional_edges(World, source, conditions,
                                            weights, priorities))
    /\ UNCHANGED graphs /\ NotBuilder

SetStart ==
    /\ \E node_name \in Nodes : SetWorld(set_start(World, node_name))
    /\ UNCHANGED graphs /\ NotBuilder

Build ==
    /\ Len(graphs) < MaxGraphs
    /\ LET r == build(World)
       IN /\ SetWorld(r.w)
          /\ graphs' = IF r.w.raised THEN graphs ELSE Append(graphs, r.graph)
    /\ NotBuilder

Next == AddNode \/ AddEdge \/ AddConditionalEdges \/ SetStart \/ Build

Spec == Init /\ [][Next]_vars

(***************************************************************************)
(* Specification SpecExec: concurrent execute calls, and resolver calls    *)
(* on the edge lists of the graph, against one built graph.  The graph is  *)
(* the one a builder script produces: add_node for one or two nodes, at    *)
(* most MaxEdges edges through add_edge / add_conditional_edges,           *)
(* set_start, build.                                                       *)
(***************************************************************************)
ExecPriorities == {1, 4}
ExecPriorityDicts == {NoDict, Some([d \in Nodes |-> 1])}

EdgeCalls(declared) ==
    {[op |-> "add_edge", source |-> s, destination |-> d,
      conditions |-> <<>>, priorities |-> NoDict] :
         s \in declared, d \in declared}
    \cup {[op |-> "add_conditional_edges", source |-> s, destination |-> None,
           conditions |-> c, priorities |-> p] :
             s \in declared, p \in ExecPriorityDicts,
             c \in {k \in ConditionDicts :
                       \A i \in 1..Len(k) : k[i][1] \in declared}}

\* The sequences of edge calls that register at most MaxEdges edges.
RECURSIVE EdgeCallSeqs(_, _)
EdgeCallSeqs(declared, room) ==
    {<<>>} \cup
    UNION {{<<c>> \o rest :
               rest \in EdgeCallSeqs(declared,
                           room - (IF c.op = "add_edge" THEN 1
                                   ELSE Len(c.conditions)))} :
           c \in {k \in EdgeCalls(declared) :
                     (IF k.op = "add_edge" THEN 1 ELSE Len(k.conditions))
                         <= room}}

RECURSIVE AddAllNodes(_, _, _, _)
AddAllNodes(w, names, processor, terminal) ==
    IF names = <<>> THEN w
    ELSE AddAllNodes(add_node(w, Head(names), processor[Head(names)],
                              terminal[Head(names)]),
                     Tail(names), processor, terminal)

RECURSIVE RunEdgeCalls(_, _)
RunEdgeCalls(w, calls) ==
    IF calls = <<>> THEN w
    ELSE LET c == Head(calls)
         IN RunEdgeCalls(
                IF c.op = "add_edge"
                THEN add_edge(w, c.source, c.destination)
                ELSE add_conditional_edges(w, c.source, c.conditions, NoDict,
                                           c.priorities),
                Tail(calls))

BuilderScript(mode, names, processor, terminal, calls, start) ==
    build(set_start(RunEdgeCalls(AddAllNodes(NewBuilder(mode), names, processor,
                                             terminal),
                                 calls), start))

Range(seq) == {seq[i] : i \in 1..Len(seq)}
NodeLists == {<<"a">>, <<"a", "b">>}

InitExec ==
    /\ \E mode \in Modes, names \in NodeLists :
       \E terminal \in [Range(names) -> BOOLEAN],
          calls \in EdgeCallSeqs(Range(names), MaxEdges),
          start \in {names[1]} :
          LET r == BuilderScript(mode, names, [n \in Range(names) |-> "mark"],
                                 terminal, calls, start)
          IN /\ heap = r.w.h
             /\ builder = r.w.b
             /\ raised = r.w.raised
             /\ graphs = <<r.graph>>
    /\ ExecIdle /\ ResolveIdle /\ CondIdle /\ ProbIdle /\ PluginIdle

NotExec == UNCHANGED <<builder, raised, graphs, r_edges, r_msg, r_out, c_cond, c_out, rng, resolver, returned,
        objects, manager, p_out>>

Start(e) ==
    /\ execs[e].pc = "idle"
    /\ \E priority \in ExecPriorities :
          execs' = [execs EXCEPT ![e] = execute(1, graphs[1], Message(<<>>, priority))]
    /\ UNCHANGED heap /\ NotExec

Step(e) ==
    /\ execs[e].pc = "running"
    /\ Len(execs[e].calls) < MaxSteps
    /\ \E x \in ExecuteStep(heap, graphs[execs[e].graph], execs[e]) :
          execs' = [execs EXCEPT ![e] = x]
    /\ UNCHANGED heap /\ NotExec

\* A caller hands the edge list of a node of the graph to a resolver.
CallDeterministicResolver ==
    /\ \E n \in DOMAIN GraphEdges(heap, graphs[1]), priority \in ExecPriorities,
          fallback_edge \in {None} :
          LET out == DeterministicResolver_resolve(fallback_edge,
                         GraphEdges(heap, graphs[1])[n], Message(<<>>, priority))
          IN heap' = [heap EXCEPT ![graphs[1].edges][n] = out.edges]
    /\ UNCHANGED execs /\ NotExec

CallLoadBalancingResolver ==
    /\ \E n \in DOMAIN GraphEdges(heap, graphs[1]), priority \in ExecPriorities,
          fallback_edge \in {None}, normalize_weights \in BOOLEAN :
          \E out \in LoadBalancingResolver_resolve(fallback_edge, normalize_weights,
                         GraphEdges(heap, graphs[1])[n], Message(<<>>, priority)) :
             heap' = [heap EXCEPT ![graphs[1].edges][n] = out.edges]
    /\ UNCHANGED execs /\ NotExec

NextExec ==
    \/ \E e \in Execs : Start(e)
    \/ \E e \in Execs : Step(e)
    \/ CallDeterministicResolver
    \/ CallLoadBalancingResolver

SpecExec == InitExec /\ [][NextExec]_vars

\* SpecExec with the while loop of every started execution running on.
SpecExecFair == SpecExec /\ \A e \in Execs : WF_vars(Step(e))

(***************************************************************************)
(* Specification SpecRaise: the executions of SpecExec on graphs whose     *)
(* node processors may raise.                                              *)
(***************************************************************************)
ExecProcessors == {"mark", "raises"}

InitRaise ==
    /\ \E mode \in Modes, names \in NodeLists :
       \E processor \in [Range(names) -> ExecProcessors],
          terminal \in [Range(names) -> BOOLEAN],
          calls \in EdgeCallSeqs(Range(names), MaxEdges),
          start \in {names[1]} :
          LET r == BuilderScript(mode, names, processor, terminal, calls, start)
          IN /\ heap = r.w.h
             /\ builder = r.w.b
             /\ raised = r.w.raised
             /\ graphs = <<r.graph>>
    /\ ExecIdle /\ ResolveIdle /\ CondIdle /\ ProbIdle /\ PluginIdle

SpecRaise == InitRaise /\ [][NextExec]_vars

(***************************************************************************)
(* Specification SpecResolve: one resolution step on the edge list of one  *)
(* source node.  The list is what a builder holds for node "entry" after   *)
(* at most MaxResolveEdges add_edge / add_conditional_edges calls (the     *)
(* routing of examples/demo.py: entry -> urgent | normal | default).       *)
(***************************************************************************)
ResolveSource == "entry"
ResolveNodes == <<"entry", "urgent", "normal", "default">>
ResolveConds == {"p1", "p3", "raises"}
ResolvePriorities == {1, 10, 1000}

ResolveEdgeCalls ==
    {[op |-> "add_edge", source |-> ResolveSource, destination |-> d,
      conditions |-> <<>>, priorities |-> NoDict] : d \in {"default", "urgent"}}
    \cup {[op |-> "add_conditional_edges", source |-> ResolveSource,
           destination |-> None, conditions |-> << <<d, c>> >>,
           priorities |-> p] :
             d \in {"urgent", "normal"}, c \in ResolveConds,
             p \in {NoDict} \cup {Some([x \in {"urgent", "normal"} |-> n]) :
                                     n \in ResolvePriorities}}

RECURSIVE ResolveCallSeqs(_)
ResolveCallSeqs(n) ==
    IF n = 0 THEN {<<>>}
    ELSE {<<>>} \cup {<<c>> \o rest :
                         c \in ResolveEdgeCalls, rest \in ResolveCallSeqs(n - 1)}

\* builder.get_edges("entry") after the calls
EdgeListAfter(calls) ==
    LET w == RunEdgeCalls(AddAllNodes(NewBuilder("deterministic"), ResolveNodes,
                                      [n \in Range(ResolveNodes) |-> "mark"],
                                      [n \in Range(ResolveNodes) |-> n /= ResolveSource]),
                          calls)
    IN IF HasKey(w.h[w.b.edges], ResolveSource)
       THEN w.h[w.b.edges][ResolveSource] ELSE <<>>

NoCall == [by |-> "none", result |-> None]

InitResolve ==
    /\ \E mode \in {"deterministic"} :
          LET w == NewBuilder(mode)
          IN heap = w.h /\ builder = w.b /\ raised = w.raised
    /\ graphs = <<>>
    /\ ExecIdle /\ CondIdle /\ ProbIdle /\ PluginIdle
    /\ \E calls \in ResolveCallSeqs(MaxResolveEdges) : r_edges = EdgeListAfter(calls)
    /\ \E priority \in MsgPriorities : r_msg = Message(<<>>, priority)
    /\ r_out = NoCall

NotResolve == UNCHANGED <<heap, builder, raised, graphs, execs, c_cond, c_out, r_msg, rng, resolver, returned,
        objects, manager, p_out>>

\* DeterministicResolver(fallback_edge).resolve(edges, message)
ResolveDeterministic ==
    /\ \E fallback_edge \in {None, "fallback"} :
          LET out == DeterministicResolver_resolve(fallback_edge, r_edges, r_msg)
          IN /\ r_edges' = out.edges
             /\ r_out' = [by |-> "DeterministicResolver", result |-> out.result]
    /\ NotResolve

\* graph._resolve_next_node("entry", message) in deterministic mode
ResolveGraphDeterministic ==
    /\ \E next \in resolve_next_node([n \in {ResolveSource} |-> r_edges],
                                     "deterministic", ResolveSource, r_msg) :
          r_out' = [by |-> "graph", result |-> next]
    /\ UNCHANGED r_edges /\ NotResolve

NextResolve == ResolveDeterministic \/ ResolveGraphDeterministic

SpecResolve == InitResolve /\ [][NextResolve]_vars

(***************************************************************************)
(* Specification SpecCond: one evaluate call on a Hybrid or a Compound     *)
(* condition whose sub-conditions are lambda conditions returning a fixed  *)
(* (matched, confidence) pair.                                             *)
(***************************************************************************)
Confidences == {0, One \div 2, One}
Lambdas == [type : {"lambda"}, matched : BOOLEAN, confidence : Confidences]

RECURSIVE LambdaSeqs(_)
LambdaSeqs(n) ==
    IF n = 0 THEN {<<>>}
    ELSE {<<>>} \cup {<<c>> \o rest : c \in Lambdas, rest \in LambdaSeqs(n - 1)}

InitCond ==
    /\ \E mode \in {"deterministic"} :
          LET w == NewBuilder(mode)
          IN heap = w.h /\ builder = w.b /\ raised = w.raised
    /\ graphs = <<>>
    /\ ExecIdle /\ ResolveIdle /\ ProbIdle /\ PluginIdle
    /\ \/ \E fast \in LambdaSeqs(MaxFast), slow \in Lambdas,
             threshold \in Confidences, use_slow \in BOOLEAN :
             c_cond = [type |-> "hybrid", fast_conditions |-> fast,
                       slow_condition |-> slow, fast_threshold |-> threshold,
                       use_slow_on_uncertain |-> use_slow]
       \/ \E conditions \in LambdaSeqs(MaxFast), operator \in {"AND", "OR"} :
             c_cond = [type |-> "compound", conditions |-> conditions,
                       operator |-> operator]
    /\ c_out = NoEvaluation

NotCond == UNCHANGED <<heap, builder, raised, graphs, execs, r_edges, r_msg, r_out, c_cond,
                      rng, resolver, returned,
                      objects, manager, p_out>>

EvaluateHybrid ==
    /\ c_cond.type = "hybrid"
    /\ LET out == HybridCondition_evaluate(c_cond)
       IN c_out' = [by |-> "hybrid", result |-> out.result,
                    slow_calls |-> out.slow_calls]
    /\ NotCond

EvaluateCompound ==
    /\ c_cond.type = "compound"
    /\ c_out' = [by |-> "compound", result |-> CompoundCondition_evaluate(c_cond),
                 slow_calls |-> 0]
    /\ NotCond

NextCond == EvaluateHybrid \/ EvaluateCompound

SpecCond == InitCond /\ [][NextCond]_vars

(***************************************************************************)
(* Specification SpecLeaf: one construction of a value object or of a      *)
(* condition, or one evaluate call on a condition without sub-conditions.  *)
(* c_cond is the call and its arguments, c_out what came of it.            *)
(***************************************************************************)
\* The confidences and scores a caller may pass: from -1.0 to 2.0.
RawValues == (0 - One)..(2 * One)

Operators == {"AND", "OR", "and", "XOR", "NOT"}
ComparisonsPassed == Comparisons \cup {"=>", "gt"}
FieldValues ==
    {[kind |-> "missing", value |-> 0], [kind |-> "text", value |-> 0]}
    \cup [kind : {"number"}, value : Confidences]

Responses ==
    {<<"y", "e", "s">>,
     <<"t", "r", "u", "e">>,
     <<"c", "o", "r", "r", "e", "c", "t">>,
     <<"p", "o", "s", "i", "t", "i", "v", "e">>,
     <<"1">>,
     <<"y">>,
     <<"n", "o">>,
     <<"f", "a", "l", "s", "e">>,
     <<"i", "n", "c", "o", "r", "r", "e", "c", "t">>,
     <<"n", "e", "g", "a", "t", "i", "v", "e">>,
     <<"0">>,
     <<"n">>,
     <<"m", "a", "y", "b", "e">>,
     <<"n", "o", " ", "w", "a", "y">>,
     <<"u", "n", "c", "l", "e", "a", "r">>,
     <<"o", "k">>,
     <<"s", "u", "r", "e">>,
     <<" ", "N", "O", " ">>,
     <<"Y", "E", "S">>,
     <<>>,
     <<"s", "p", "a", "m">>,
     <<"i", "t", " ", "i", "s", " ", "s", "p", "a", "m">>,
     <<"1", "0", "0">>,
     <<"a", "g", "r", "e", "e">>}
LabelLists == {<<>>, <<<<"s", "p", "a", "m">>>>}

LeafCalls ==
    [type : {"ConditionResult"}, matched : BOOLEAN, confidence : RawValues]
    \cup [type : {"MessageMetadata"}, score : RawValues, priority : MsgPriorities]
    \cup [type : {"CompoundCondition"}, conditions : LambdaSeqs(1),
          operator : Operators]
    \cup [type : {"ThresholdCondition"}, comparison : ComparisonsPassed,
          threshold : Confidences, found : FieldValues]
    \cup [type : {"LLMCondition"}, expected_labels : LabelLists,
          response : Responses]
    \cup [type : {"LambdaCondition"},
          returns : {"raises", "bool", "tuple", "other"},
          matched : BOOLEAN, confidence : RawValues]

InitLeaf ==
    /\ \E mode \in {"deterministic"} :
          LET w == NewBuilder(mode)
          IN heap = w.h /\ builder = w.b /\ raised = w.raised
    /\ graphs = <<>>
    /\ ExecIdle /\ ResolveIdle /\ ProbIdle /\ PluginIdle
    /\ c_cond \in LeafCalls
    /\ c_out = NoEvaluation

\* What the call named by came to.
Returns(by, value) ==
    [by |-> by, result |-> value, slow_calls |-> 0, raised |-> FALSE]
Outcome(by, out) ==
    [by |-> by, result |-> out.value, slow_calls |-> 0, raised |-> out.raised]

ConstructConditionResult ==
    /\ c_cond.type = "ConditionResult"
    /\ c_out.by = "none"
    /\ c_out' = Returns("ConditionResult",
                        ConditionResult(c_cond.matched, c_cond.confidence, ""))
    /\ NotCond

ConstructMessageMetadata ==
    /\ c_cond.type = "MessageMetadata"
    /\ c_out.by = "none"
    /\ c_out' = Returns("MessageMetadata",
                        MessageMetadata(c_cond.score, c_cond.priority))
    /\ NotCond

ConstructCompoundCondition ==
    /\ c_cond.type = "CompoundCondition"
    /\ c_out.by = "none"
    /\ c_out' = Outcome("CompoundCondition",
                        CompoundCondition(c_cond.conditions, c_cond.operator))
    /\ NotCond

ConstructThresholdCondition ==
    /\ c_cond.type = "ThresholdCondition"
    /\ c_out.by = "none"
    /\ c_out' = Outcome("ThresholdCondition",
                        ThresholdCondition("metadata.score", c_cond.threshold,
                                           c_cond.comparison))
    /\ NotCond

\* evaluate(message) on the condition just constructed
EvaluateConstructed ==
    /\ c_out.by \in {"CompoundCondition", "ThresholdCondition"}
    /\ ~c_out.raised
    /\ c_out' = IF c_out.by = "CompoundCondition"
                THEN Returns("CompoundCondition.evaluate",
                             CompoundCondition_evaluate(c_out.result))
                ELSE Outcome("ThresholdCondition.evaluate",
                             ThresholdCondition_evaluate(c_out.result, c_cond.found))
    /\ NotCond

\* LambdaCondition(func).evaluate(message)
EvaluateLambda ==
    /\ c_cond.type = "LambdaCondition"
    /\ c_out.by = "none"
    /\ c_out' = Returns("LambdaCondition.evaluate",
                        LambdaCondition_evaluate_func(c_cond))
    /\ NotCond

\* LLMCondition(llm, prompt, expected_labels)._parse_response(response, content)
ParseResponse ==
    /\ c_cond.type = "LLMCondition"
    /\ c_out.by = "none"
    /\ c_out' = Returns("LLMCondition._parse_response",
                        LLMCondition_parse_response(c_cond.expected_labels,
                                                    c_cond.response))
    /\ NotCond

NextLeaf ==
    \/ EvaluateLambda
    \/ ParseResponse
    \/ ConstructConditionResult
    \/ ConstructMessageMetadata
    \/ ConstructCompoundCondition
    \/ ConstructThresholdCondition
    \/ EvaluateConstructed

SpecLeaf == InitLeaf /\ [][NextLeaf]_vars

(***************************************************************************)
(* Specification SpecProb: one ProbabilisticResolver, constructed with or  *)
(* without a seed, resolving one edge list for one message up to MaxCalls  *)
(* times, while the rest of the process may construct other seeded         *)
(* resolvers and draw from the random module.                              *)
(***************************************************************************)
ProbNodes == <<"route_a", "route_b", "route_c", "route_d">>
ProbConds == {"always", "p1"}
ProbWeights == {0, 1, 3}
Seeds == {1, 2}

\* The lists of at most n edges; the edge at position i leads to ProbNodes[i].
RECURSIVE ProbEdgeLists(_)
ProbEdgeLists(n) ==
    IF n = 0 THEN {<<>>}
    ELSE {<<>>} \cup
         {Append(rest, ConditionalEdge(ProbNodes[Len(rest) + 1], c, w,
                                       DefaultPriority, "")) :
             rest \in {l \in ProbEdgeLists(n - 1) : Len(l) = n - 1},
             c \in ProbConds, w \in ProbWeights}
         \cup ProbEdgeLists(n - 1)

InitProb ==
    /\ \E mode \in {"deterministic"} :
          LET w == NewBuilder(mode)
          IN heap = w.h /\ builder = w.b /\ raised = w.raised
    /\ graphs = <<>>
    /\ ExecIdle /\ CondIdle /\ PluginIdle
    /\ r_edges \in ProbEdgeLists(MaxProbEdges)
    /\ \E priority \in ExecPriorities : r_msg = Message(<<>>, priority)
    /\ r_out = NoCall
    /\ \E fallback_edge \in {None, "fallback"}, seeded \in BOOLEAN,
          seed \in Seeds, state \in RngStates :
          LET new == ProbabilisticResolver(fallback_edge, seeded,
                                           IF seeded THEN seed ELSE 0, state)
          IN resolver = new.resolver /\ rng = new.rng
    /\ returned = <<>>

NotProb == UNCHANGED <<heap, builder, raised, graphs, execs, c_cond, c_out, r_msg, resolver,
        objects, manager, p_out>>

\* resolver.resolve(edges, message)
ResolveProbabilistic ==
    /\ Len(returned) < MaxCalls
    /\ LET r2 == random_uniform(rng, SumWeights(MatchingEdges(r_edges, r_msg)))
           out == ProbabilisticResolver_resolve_draw(resolver.fallback_edge,
                                                     r_edges, r_msg, r2)
       IN /\ returned' = Append(returned,
                                [drew |-> out.drew,
                                 r2 |-> IF out.drew THEN r2 ELSE 0,
                                 result |-> out.result])
          /\ rng' = IF out.drew THEN random_step(rng) ELSE rng
          /\ r_edges' = out.edges
          /\ r_out' = [by |-> "ProbabilisticResolver", result |-> out.result]
    /\ NotProb

\* ProbabilisticResolver(seed=seed) constructed elsewhere in the process.
ConstructOtherResolver ==
    /\ \E seed \in Seeds :
          rng' = ProbabilisticResolver(None, TRUE, seed, rng).rng
    /\ UNCHANGED <<r_edges, r_out, returned>> /\ NotProb

\* A draw from the random module elsewhere in the process.
OtherDraw ==
    /\ rng' = random_step(rng)
    /\ UNCHANGED <<r_edges, r_out, returned>> /\ NotProb

NextProb == ResolveProbabilistic \/ ConstructOtherResolver \/ OtherDraw

SpecProb == InitProb /\ [][NextProb]_vars

(***************************************************************************)
(* Specification SpecCalls: the resolvers of resolution/probabilistic.py   *)
(* and the graph's own probabilistic resolution, called on one edge list   *)
(* for one message with the draws of the process generator.                *)
(***************************************************************************)
\* The call named by, which drew r2 if it drew at all, returned result (and
\* confidence, for a confidence-reporting call).
NoteCall(by, normalize_weights, r2, drew, result, confidence) ==
    /\ Len(returned) < MaxCalls
    /\ returned' = Append(returned,
                          [by |-> by, normalize_weights |-> normalize_weights,
                           drew |-> drew, r2 |-> IF drew THEN r2 ELSE 0,
                           result |-> result, confidence |-> confidence])
    /\ rng' = IF drew THEN random_step(rng) ELSE rng
    /\ r_out' = [by |-> by, result |-> result]
    /\ UNCHANGED r_edges /\ NotProb

\* random.uniform(0, total weight of the matching edges of edges)
Draw(edges) == random_uniform(rng, SumWeights(MatchingEdges(edges, r_msg)))

\* ProbabilisticResolver(fallback_edge).resolve(edges, message)
Resolve ==
    LET out == ProbabilisticResolver_resolve_draw(resolver.fallback_edge, r_edges,
                                                  r_msg, Draw(r_edges))
    IN NoteCall("resolve", FALSE, Draw(r_edges), out.drew, out.result, 0)

\* ProbabilisticResolver(fallback_edge).resolve_with_confidence(edges, message)
ResolveWithConfidence ==
    LET out == ProbabilisticResolver_resolve_with_confidence(
                   resolver.fallback_edge, r_edges, r_msg, Draw(r_edges))
    IN NoteCall("resolve_with_confidence", FALSE, Draw(r_edges), out.drew,
                out.result, out.confidence)

\* LoadBalancingResolver(fallback_edge, normalize_weights).resolve(edges, message)
ResolveBalanced ==
    \E normalize_weights \in BOOLEAN :
       LET r2 == Draw(IF normalize_weights THEN equal_weight_edges(r_edges)
                      ELSE r_edges)
           out == LoadBalancingResolver_resolve_draw(resolver.fallback_edge,
                      normalize_weights, r_edges, r_msg, r2)
       IN NoteCall("balanced.resolve", normalize_weights, r2, out.drew,
                   out.result, 0)

\* LoadBalancingResolver(...).resolve_with_confidence(edges, message): the
\* method inherited from ProbabilisticResolver
ResolveBalancedWithConfidence ==
    \E normalize_weights \in BOOLEAN :
       LET out == ProbabilisticResolver_resolve_with_confidence(
                      resolver.fallback_edge, r_edges, r_msg, Draw(r_edges))
       IN NoteCall("balanced.resolve_with_confidence", normalize_weights,
                   Draw(r_edges), out.drew, out.result, out.confidence)

\* _resolve_next_node of a graph in PROBABILISTIC mode whose current node has
\* the edge list; random.uniform is called when an edge matches.
ResolveGraphProbabilistic ==
    NoteCall("graph", FALSE, Draw(r_edges),
             MatchingEdges(r_edges, r_msg) /= <<>>,
             resolve_next_node_draw([n \in {"source"} |-> r_edges],
                                    "probabilistic", "source", r_msg,
                                    Draw(r_edges)),
             0)

NextCalls ==
    \/ Resolve
    \/ ResolveWithConfidence
    \/ ResolveBalanced
    \/ ResolveBalancedWithConfidence
    \/ ResolveGraphProbabilistic

SpecCalls == InitProb /\ [][NextCalls]_vars

(***************************************************************************)
(* Specification SpecMatch: SpecProb over edges whose conditions are       *)
(* Condition objects (LambdaCondition and the like) instead of plain       *)
(* callables.                                                              *)
(***************************************************************************)
MatchEdgeLists ==
    {[i \in DOMAIN l |-> IF l[i].condition = "p1"
                         THEN [l[i] EXCEPT !.condition = "p1_cond"]
                         ELSE l[i]] : l \in ProbEdgeLists(MaxProbEdges)}

InitMatch ==
    /\ \E mode \in {"deterministic"} :
          LET w == NewBuilder(mode)
          IN heap = w.h /\ builder = w.b /\ raised = w.raised
    /\ graphs = <<>>
    /\ ExecIdle /\ CondIdle /\ PluginIdle
    /\ r_edges \in MatchEdgeLists
    /\ \E priority \in ExecPriorities : r_msg = Message(<<>>, priority)
    /\ r_out = NoCall
    /\ \E fallback_edge \in {None, "fallback"}, seeded \in BOOLEAN,
          seed \in Seeds, state \in RngStates :
          LET new == ProbabilisticResolver(fallback_edge, seeded,
                                           IF seeded THEN seed ELSE 0, state)
          IN resolver = new.resolver /\ rng = new.rng
    /\ returned = <<>>

SpecMatch == InitMatch /\ [][NextProb]_vars

(***************************************************************************)
(* Specification SpecPlugin: one PluginManager(auto_discover=False) and    *)
(* the plugin instances its caller holds.                                  *)
(***************************************************************************)
PluginNames == {"test_plugin", "python_generator", "github_integration"}
\* What a caller passes as `plugin`: an instance it holds.
PluginArgs == [is_type : {FALSE}, cls : {None}, ref : 1..Len(objects)]

InitPlugin ==
    /\ \E mode \in {"deterministic"} :
          LET w == NewBuilder(mode)
          IN heap = w.h /\ builder = w.b /\ raised = w.raised
    /\ graphs = <<>>
    /\ ExecIdle /\ ResolveIdle /\ CondIdle /\ ProbIdle /\ PluginIdle

NotPlugin == UNCHANGED <<heap, builder, raised, graphs, execs, r_edges, r_msg, r_out,
                         c_cond, c_out, rng, resolver, returned>>

\* What the call op(name) came to.
SetManager(op, name, out) ==
    /\ objects' = out.objects
    /\ manager' = out.plugins
    /\ p_out' = [op |-> op, name |-> name, raised |-> out.raised, value |-> out.value]
    /\ NotPlugin
Manager == [objects |-> objects, plugins |-> manager]

\* plugin = PluginClass(): the caller creates an instance
Create ==
    /\ Len(objects) < MaxObjects
    /\ \E cls \in PluginClasses : objects' = Append(objects, BasePlugin(cls))
    /\ p_out' = [op |-> "create", name |-> None, raised |-> FALSE,
                 value |-> Len(objects')]
    /\ UNCHANGED manager /\ NotPlugin

Register ==
    \E plugin \in PluginArgs, name \in PluginNames \cup {None},
       config \in {NoDict, Some(TRUE)} :
       LET out == PluginManager_register(Manager, plugin, name, config, TRUE)
       IN SetManager("register",
                     IF name /= None THEN name ELSE objects[plugin.ref].name,
                     out)

Load ==
    \E name \in PluginNames, config \in {NoDict, Some(TRUE)} :
       /\ Len(objects) < MaxObjects
       /\ SetManager("load", name, PluginManager_load(Manager, name, config))

Unload ==
    \E name \in PluginNames :
       SetManager("unload", name, PluginManager_unload(Manager, name))

Reload ==
    \E name \in PluginNames :
       /\ Len(objects) < MaxObjects
       /\ SetManager("reload", name, PluginManager_reload(Manager, name))

\* PluginManager.get(name)
Get ==
    \E name \in PluginNames :
       SetManager("get", name,
                  [objects |-> objects, plugins |-> manager,
                   raised |-> ~HasKey(manager, name),
                   value |-> IF HasKey(manager, name)
                             THEN manager[name].instance ELSE 0])

\* PluginManager.enable(name) and PluginManager.disable(name)
SetEnabled ==
    \E name \in PluginNames, enabled \in BOOLEAN :
       SetManager(IF enabled THEN "enable" ELSE "disable", name,
                  [objects |-> objects,
                   plugins |-> IF HasKey(manager, name)
                               THEN [manager EXCEPT ![name].enabled = enabled]
                               ELSE manager,
                   raised |-> ~HasKey(manager, name), value |-> 0])

NextPlugin == Create \/ Register \/ Load \/ Unload \/ Reload \/ Get \/ SetEnabled

SpecPlugin == InitPlugin /\ [][NextPlugin]_vars

\* The manager driven through register, unload, get, enable and disable only.
NextRegistry == Create \/ Register \/ Unload \/ Get \/ SetEnabled
SpecRegistry == InitPlugin /\ [][NextRegistry]_vars

(***************************************************************************)
(* Properties of WorkflowGraph.execute (SpecExec).                         *)
(***************************************************************************)
ExecGraph(e) == graphs[execs[e].graph]
\* Execution e takes a loop iteration in this step.
Steps(e) == execs[e].pc = "running" /\ execs'[e] /= execs[e]
\* The edges of node n that match message m, in registration order.
MatchingAt(g, n, m) ==
    MatchingEdges(IF HasKey(GraphEdges(heap, g), n)
                  THEN GraphEdges(heap, g)[n] ELSE <<>>, m)
ProcessedAt(g, n, m) == CallProcessor(GraphNodes(heap, g)[n], m)

\* C1: a loop iteration at a node of end_nodes invokes that node's processor
\* once, evaluates no edge and ends the execution with the processor's
\* output; a finished execution does nothing further.
C1_TerminalHalts ==
    [][\A e \in Execs :
          /\ (Steps(e) /\ execs[e].current_node_name \in
                              GraphEndNodes(heap, ExecGraph(e)))
                => /\ execs'[e].pc = "done"
                   /\ execs'[e].calls =
                          Append(execs[e].calls, execs[e].current_node_name)
                   /\ execs'[e].message =
                          ProcessedAt(ExecGraph(e), execs[e].current_node_name,
                                      execs[e].message)
                   /\ execs'[e].evals = execs[e].evals
          /\ execs[e].pc = "done" => execs'[e] = execs[e]]_vars

\* An execution has ended at a node of end_nodes that has an outgoing edge
\* matching the returned message.
C1_Witness ==
    \E e \in Execs :
        /\ execs[e].pc = "done"
        /\ execs[e].calls /= <<>>
        /\ LET n == execs[e].calls[Len(execs[e].calls)]
           IN /\ n \in GraphEndNodes(heap, ExecGraph(e))
              /\ MatchingAt(ExecGraph(e), n, execs[e].message) /= <<>>
              /\ execs[e].message.content = execs[e].calls
              /\ execs[e].evals = 0

\* A graph of one node, not terminal, without edges.
SingleNodeGraph(g) ==
    /\ Cardinality(DOMAIN GraphNodes(heap, g)) = 1
    /\ GraphEndNodes(heap, g) = {}
    /\ \A n \in DOMAIN GraphEdges(heap, g) : GraphEdges(heap, g)[n] = <<>>

C2_DeadEndStep ==
    \A e \in Execs :
        (/\ Steps(e)
         /\ execs[e].current_node_name \notin GraphEndNodes(heap, ExecGraph(e))
         /\ MatchingAt(ExecGraph(e), execs[e].current_node_name,
                       ProcessedAt(ExecGraph(e), execs[e].current_node_name,
                                   execs[e].message)) = <<>>)
        => /\ execs'[e].pc = "done"
           /\ execs'[e].calls =
                  Append(execs[e].calls, execs[e].current_node_name)
           /\ execs'[e].message =
                  ProcessedAt(ExecGraph(e), execs[e].current_node_name,
                              execs[e].message)

C2_SingleNode ==
    \A e \in Execs :
        (execs[e].pc /= "idle" /\ SingleNodeGraph(ExecGraph(e)))
        => \/ execs[e].pc = "running" /\ execs[e].calls = <<>>
           \/ /\ execs[e].pc = "done"
              /\ Len(execs[e].calls) = 1
              /\ execs[e].message =
                     Message(<<ExecGraph(e).start_node>>, execs[e].input)

\* C2: a loop iteration at a node outside end_nodes that has no edge, or no
\* edge matching the processor's output, ends the execution normally with
\* that output; on a graph of one non-terminal node without edges the
\* execution ends after exactly one processor call, with its output.
C2_DeadEndHalts == [][C2_DeadEndStep]_vars /\ []C2_SingleNode

\* An execution has ended at a non-terminal node that has edges, none of
\* which matches.
C2_Witness ==
    \E e \in Execs :
        /\ execs[e].pc = "done"
        /\ execs[e].calls /= <<>>
        /\ LET n == execs[e].calls[Len(execs[e].calls)]
           IN /\ n \notin GraphEndNodes(heap, ExecGraph(e))
              /\ HasKey(GraphEdges(heap, ExecGraph(e)), n)
              /\ GraphEdges(heap, ExecGraph(e))[n] /= <<>>
              /\ MatchingAt(ExecGraph(e), n, execs[e].message) = <<>>

\* The execution of input priority p on graph g, run alone for n iterations
\* (deterministic mode: every iteration has one outcome).
RECURSIVE SoloRun(_, _, _)
SoloRun(g, x, n) ==
    IF n = 0 \/ x.pc /= "running" THEN x
    ELSE SoloRun(g, CHOOSE y \in ExecuteStep(heap, g, x) : TRUE, n - 1)

C4_GraphUnchanged ==
    \A i \in 1..Len(graphs) :
        GraphView(heap', graphs[i]) = GraphView(heap, graphs[i])

C4_PathsAsAlone ==
    \A e \in Execs :
        (execs[e].pc /= "idle"
            /\ ExecGraph(e).resolution_mode = "deterministic")
        => execs[e] = SoloRun(ExecGraph(e),
                              execute(execs[e].graph, ExecGraph(e),
                                      Message(<<>>, execs[e].input)),
                              Len(execs[e].calls))

\* C4: no step of an execute call and no resolve call changes the node map,
\* the edge lists, start_node or end_nodes of the graph, and in deterministic
\* mode every execution, however interleaved with the others, is where it
\* would be running alone.
C4_ExecutionsLeaveGraph == [][C4_GraphUnchanged]_vars /\ []C4_PathsAsAlone

\* Two executions with different inputs have interleaved on a graph whose
\* edge list is not in priority order: one has ended after two nodes while
\* the other, started before that, is still running.
C4_Witness ==
    /\ graphs[1].resolution_mode = "deterministic"
    /\ \E n \in DOMAIN GraphEdges(heap, graphs[1]) :
          LET edges == GraphEdges(heap, graphs[1])[n]
          IN Len(edges) = 2 /\ edges[1].priority > edges[2].priority
    /\ execs["e1"].pc = "done" /\ Len(execs["e1"].calls) = 2
    /\ execs["e2"].pc = "running" /\ Len(execs["e2"].calls) = 1
    /\ execs["e1"].input /= execs["e2"].input

(***************************************************************************)
(* Properties of WorkflowBuilder (Spec).                                   *)
(***************************************************************************)
\* C3: whatever the builder is asked to do after build() returned, the
\* nodes, edges and end_nodes of every graph already built stay as they
\* were.
C3_BuiltGraphImmutable ==
    [][\A i \in 1..Len(graphs) :
          /\ GraphNodes(heap', graphs[i]) = GraphNodes(heap, graphs[i])
          /\ GraphEdges(heap', graphs[i]) = GraphEdges(heap, graphs[i])
          /\ GraphEndNodes(heap', graphs[i]) = GraphEndNodes(heap, graphs[i])]_vars

(***************************************************************************)
(* Properties of deterministic resolution (SpecResolve).                   *)
(***************************************************************************)
\* The indices of the edges of r_edges whose condition holds of r_msg.
MatchingIdx == {i \in 1..Len(r_edges) : EdgeEvaluate(r_edges[i], r_msg)}
Deterministic == r_out.by \in {"DeterministicResolver", "graph"}

\* The routing of demo_full_workflow: urgent:1 if priority <= 1, normal:10 if
\* priority <= 3, default through add_edge.
DemoCalls ==
    << [op |-> "add_conditional_edges", source |-> ResolveSource,
        destination |-> None, conditions |-> << <<"urgent", "p1">> >>,
        priorities |-> Some([x \in {"urgent", "normal"} |-> 1])],
       [op |-> "add_conditional_edges", source |-> ResolveSource,
        destination |-> None, conditions |-> << <<"normal", "p3">> >>,
        priorities |-> Some([x \in {"urgent", "normal"} |-> 10])],
       [op |-> "add_edge", source |-> ResolveSource, destination |-> "default",
        conditions |-> <<>>, priorities |-> NoDict] >>
DemoEdges == EdgeListAfter(DemoCalls)

\* C5: when some edge matches, deterministic resolution (the resolver and
\* the graph alike) returns the destination of a matching edge whose
\* priority no matching edge undercuts; on the demo routing that is urgent
\* for priority 1, normal for priority 2, default for priority 4.
C5_SmallestPriorityWins ==
    (Deterministic /\ MatchingIdx /= {})
    => /\ \E i \in MatchingIdx :
             /\ r_edges[i].destination = r_out.result
             /\ \A j \in MatchingIdx : r_edges[i].priority <= r_edges[j].priority
       /\ r_edges = DemoEdges
             => r_out.result = CASE r_msg.priority = 1 -> "urgent"
                                 [] r_msg.priority = 2 -> "normal"
                                 [] r_msg.priority = 4 -> "default"

\* The resolver has routed a priority-2 message over the demo edges to normal.
C5_Witness ==
    /\ r_edges = DemoEdges
    /\ r_msg.priority = 2
    /\ r_out = [by |-> "DeterministicResolver", result |-> "normal"]

Unconditional == {u \in 1..Len(r_edges) : r_edges[u].description = "unconditional"}
\* The graph took edge u: it returned u's destination, and no other matching
\* edge leads there.
Taken(u) ==
    /\ r_out.by = "graph"
    /\ r_out.result = r_edges[u].destination
    /\ \A j \in MatchingIdx \ {u} : r_edges[j].destination /= r_out.result

Hybrid == c_out.by = "hybrid"
Compound == c_out.by = "compound"

\* Stage 1 as the claims state it: matched iff a fast condition matched, with
\* the highest confidence among the matching ones (0 when none matched).
FastMatching ==
    {i \in 1..Len(c_cond.fast_conditions) : c_cond.fast_conditions[i].matched}
Stage1Matched == FastMatching /= {}
Stage1Confidence ==
    IF FastMatching = {} THEN 0
    ELSE CHOOSE x \in {c_cond.fast_conditions[i].confidence : i \in FastMatching} :
            \A i \in FastMatching : x >= c_cond.fast_conditions[i].confidence
Stage1Result ==
    [matched |-> Stage1Matched, confidence |-> Stage1Confidence, stage |-> 1]
Stage2Result ==
    [matched |-> c_cond.slow_condition.matched,
     confidence |-> c_cond.slow_condition.confidence, stage |-> 2]
\* What evaluate returned, and from which stage the result object comes.
Returned ==
    [matched |-> c_out.result.matched, confidence |-> c_out.result.confidence,
     stage |-> IF c_out.result.reason = "Lambda returned tuple" THEN 2 ELSE 1]

C8_ResolutionOrder ==
    (Hybrid /\ c_out.slow_calls = 1)
    => Returned =
          IF Stage2Result.matched THEN Stage2Result
          ELSE IF Stage1Matched /\ Stage1Confidence >= c_cond.fast_threshold
               THEN Stage1Result
               ELSE Stage2Result

\* Stage 2 ran and did not match; stage 1 had two matches, the second the
\* more confident, and was trusted.
C8_Witness ==
    /\ Hybrid /\ c_out.slow_calls = 1
    /\ ~c_cond.slow_condition.matched
    /\ Len(c_cond.fast_conditions) = 2
    /\ FastMatching = {1, 2}
    /\ c_cond.fast_conditions[1].confidence < c_cond.fast_conditions[2].confidence
    /\ c_cond.fast_conditions[2].confidence >= c_cond.fast_threshold
    /\ Returned = Stage1Result

\* C9: a Compound condition without sub-conditions does not match, for AND
\* and for OR.
C9_EmptyCompoundNoMatch ==
    (Compound /\ c_cond.conditions = <<>>) => ~c_out.result.matched

\* An empty AND has been evaluated.
C9_Witness ==
    /\ Compound
    /\ c_cond.conditions = <<>>
    /\ c_cond.operator = "AND"
    /\ ~c_out.result.matched

\* C10: a Compound condition without sub-conditions returns confidence 0.
C10_EmptyCompoundConfidenceZero ==
    (Compound /\ c_cond.conditions = <<>>) => c_out.result.confidence = 0

\* The sum of the confidences of the sub-results of the Compound condition
\* evaluated, taken over the positions from i on.
RECURSIVE SubConfidenceFrom(_)
SubConfidenceFrom(i) ==
    IF i > Len(c_cond.conditions) THEN 0
    ELSE Max(0, Min(One, c_cond.conditions[i].confidence)) + SubConfidenceFrom(i + 1)

\* C11: an AND over a non-empty list matches iff every sub-result matched,
\* and its confidence is the arithmetic mean of the confidences of all the
\* sub-results, matching or not.
C11_AndMeanOfAll ==
    (Compound /\ c_cond.operator = "AND" /\ c_cond.conditions /= <<>>)
    => /\ c_out.result.matched
            <=> \A i \in 1..Len(c_cond.conditions) : c_cond.conditions[i].matched
       /\ c_out.result.confidence * Len(c_cond.conditions) = SubConfidenceFrom(1)

\* An AND of a matching sub-result of confidence 1.0 and a non-matching one
\* of confidence 0.5: no match, confidence 0.75.
C11_Witness ==
    /\ Compound /\ c_cond.operator = "AND"
    /\ Len(c_cond.conditions) = 2
    /\ c_cond.conditions[1].matched /\ c_cond.conditions[1].confidence = One
    /\ ~c_cond.conditions[2].matched /\ 2 * c_cond.conditions[2].confidence = One
    /\ ~c_out.result.matched
    /\ 4 * c_out.result.confidence = 3 * One

(***************************************************************************)
(* Properties of value objects and leaf conditions (SpecLeaf).             *)
(***************************************************************************)
InRange(x) == 0 <= x /\ x <= One

\* C12: a constructed ConditionResult has its confidence, and a constructed
\* MessageMetadata its score, in [0.0, 1.0] whatever value was passed in, and
\* a value passed inside the range is kept.
C12_Clamped ==
    /\ c_out.by = "ConditionResult"
          => /\ InRange(c_out.result.confidence)
             /\ InRange(c_cond.confidence)
                   => c_out.result.confidence = c_cond.confidence
    /\ c_out.by = "MessageMetadata"
          => /\ InRange(c_out.result.score)
             /\ InRange(c_cond.score) => c_out.result.score = c_cond.score

\* A ConditionResult constructed with a confidence above 1.0 holds 1.0.
C12_Witness ==
    /\ c_out.by = "ConditionResult"
    /\ c_cond.confidence > One
    /\ c_out.result.confidence = One

(***************************************************************************)
(* Properties of the resolution step with failing conditions (SpecResolve). *)
(***************************************************************************)
\* The edges whose condition raises for the message, and those whose
\* condition returns true.
RaisingIdx ==
    {i \in 1..Len(r_edges) : CallCondition(r_edges[i].condition, r_msg).raised}
TrueIdx ==
    {i \in 1..Len(r_edges) :
        LET outcome == CallCondition(r_edges[i].condition, r_msg)
        IN ~outcome.raised /\ outcome.value}

\* C13: when the condition of an edge raises, the resolution step still
\* returns: the failing edge counts as non-matching and the other edges,
\* those after it included, are evaluated and selected from as usual (the
\* smallest priority among the edges whose condition holds, the first
\* registered on a tie; the fallback or no next node when none holds).
C13_RaisingEdgeSkipped ==
    (r_out.by /= "none" /\ RaisingIdx /= {})
    => IF TrueIdx = {}
       THEN r_out.result \in {None, "fallback"}
       ELSE \E i \in TrueIdx :
               /\ r_out.result = r_edges[i].destination
               /\ \A j \in TrueIdx : r_edges[i].priority <= r_edges[j].priority
               /\ \A j \in TrueIdx : j < i => r_edges[j].priority > r_edges[i].priority

\* The first edge raises and would have won by priority; the edge after it
\* holds and is the one taken, by the resolver and by the graph.
C13_Witness ==
    /\ r_out.by = "graph"
    /\ Len(r_edges) >= 2
    /\ 1 \in RaisingIdx /\ 2 \in TrueIdx
    /\ r_edges[1].priority < r_edges[2].priority
    /\ r_edges[1].destination /= r_edges[2].destination
    /\ r_out.result = r_edges[2].destination

(***************************************************************************)
(* Properties of ProbabilisticResolver (SpecProb).                         *)
(***************************************************************************)
\* The weight accumulated over the matching edges up to position i.
RECURSIVE CumulativeWeight(_)
CumulativeWeight(i) ==
    IF i = 0 THEN 0
    ELSE CumulativeWeight(i - 1) + (IF i \in TrueIdx THEN r_edges[i].weight ELSE 0)

TotalWeight == CumulativeWeight(Len(r_edges))

\* C14: with total the weight of the matching edges and r the draw in
\* [0, total), resolve returns the destination of the first matching edge in
\* registration order whose cumulative weight is >= r; it returns the
\* fallback, without drawing, when no edge matches or total <= 0.
C14_FirstCumulativeAtLeastDraw ==
    \A k \in 1..Len(returned) :
       IF TrueIdx = {} \/ TotalWeight <= 0
       THEN ~returned[k].drew /\ returned[k].result = resolver.fallback_edge
       ELSE /\ returned[k].drew
            /\ returned[k].r2 \in 0..(2 * TotalWeight)
            /\ \E i \in TrueIdx :
                  /\ 2 * CumulativeWeight(i) >= returned[k].r2
                  /\ \A j \in TrueIdx :
                        j < i => 2 * CumulativeWeight(j) < returned[k].r2
                  /\ returned[k].result = r_edges[i].destination

\* Edges of weight 1 and 3, both matching: a draw of exactly 1.0 took the
\* first edge and a later draw above 1.0 took the second.
C14_Witness ==
    /\ Len(returned) = 2 /\ Len(r_edges) = 2
    /\ TrueIdx = {1, 2}
    /\ r_edges[1].weight = 1 /\ r_edges[2].weight = 3
    /\ returned[1].r2 = 2 /\ returned[1].result = r_edges[1].destination
    /\ returned[2].r2 > 2 /\ returned[2].result = r_edges[2].destination

\* The state of the generator before the k-th resolve call of a resolver
\* seeded with seed whose calls are the only draws made.
RECURSIVE StateAlone(_, _)
StateAlone(seed, k) ==
    IF k = 1 THEN random_seed(seed) ELSE random_step(StateAlone(seed, k - 1))

\* What the k-th resolve call of the resolver returns when its calls are the
\* only draws made since it was constructed.
ResultAlone(k) ==
    ProbabilisticResolver_resolve_draw(
        resolver.fallback_edge, r_edges, r_msg,
        random_uniform(StateAlone(resolver.seed, k), TotalWeight)).result

\* C15: the destinations a seeded resolver returns are those its seed and its
\* own calls determine, whatever else the process constructs or draws
\* between its calls.
C15_SeededReproducible ==
    resolver.seeded
    => \A k \in 1..Len(returned) : returned[k].result = ResultAlone(k)

(***************************************************************************)
(* Properties of the builder's error reporting (Spec).                     *)
(***************************************************************************)
Declared == DOMAIN heap[builder.nodes]

\* In every state the builder can be in, each call raises exactly on a
\* missing node reference, and build exactly on an unset start node.
C16_CallsRaiseOnMissing ==
    /\ \A source \in Nodes, destination \in Nodes :
          add_edge(World, source, destination).raised
             <=> (source \notin Declared \/ destination \notin Declared)
    /\ \A source \in Nodes, conditions \in ConditionDicts,
          weights \in WeightDicts, priorities \in PriorityDicts :
          add_conditional_edges(World, source, conditions, weights, priorities).raised
             <=> (\/ source \notin Declared
                  \/ \E i \in 1..Len(conditions) : conditions[i][1] \notin Declared)
    /\ \A node_name \in Nodes :
          set_start(World, node_name).raised <=> node_name \notin Declared
    /\ build(World).w.raised <=> builder.start_node = None
    /\ builder.start_node /= None => builder.start_node \in Declared

\* A step that yields a graph did not raise and found the start node set by
\* an earlier set_start, a declared node.
C16_BuildAfterSetStart ==
    graphs' /= graphs
    => /\ ~raised'
       /\ builder.start_node \in Declared
       /\ graphs'[Len(graphs')].start_node = builder.start_node

\* C16: add_edge, add_conditional_edges and set_start raise when a node they
\* name is not declared, build raises when no start node is set, and build
\* returns a graph only after a set_start that succeeded.
C16_ConfigurationErrorsRaise ==
    []C16_CallsRaiseOnMissing /\ [][C16_BuildAfterSetStart]_vars

\* A graph has been built on a declared start node, and a later call that
\* names the node not yet declared has raised.
C16_Witness ==
    /\ Len(graphs) = 1
    /\ raised
    /\ Declared = {"a"}
    /\ builder.start_node = "a"

\* C17: a CompoundCondition constructed with an operator other than AND/OR,
\* or a ThresholdCondition constructed with a comparison outside
\* {>, <, >=, <=, ==, !=}, fails at construction: no condition object comes
\* of the constructor call, and none is evaluated later.
C17_InvalidOperatorFailsAtConstruction ==
    /\ (c_cond.type = "CompoundCondition"
           /\ c_cond.operator \notin {"AND", "OR", "and", "or"}
           /\ c_out.by /= "none")
          => c_out.by = "CompoundCondition" /\ c_out.raised
    /\ (c_cond.type = "ThresholdCondition"
           /\ c_cond.comparison \notin {">", "<", ">=", "<=", "==", "!="}
           /\ c_out.by /= "none")
          => c_out.by = "ThresholdCondition" /\ c_out.raised

(***************************************************************************)
(* Properties of executions with raising processors (SpecRaise).           *)
(***************************************************************************)
RaisesAt(e) ==
    GraphNodes(heap, ExecGraph(e))[execs[e].current_node_name].processor = "raises"

\* A step of an execution whose current node's processor raises: execute is
\* left by the exception after that one invocation, with no edge evaluated
\* and the message as it was; an execution left by an exception does
\* nothing more.
C18_RaisingStep ==
    \A e \in Execs :
       /\ (execs[e].pc = "running" /\ execs'[e] /= execs[e] /\ RaisesAt(e))
             => /\ execs'[e].pc = "raised"
                /\ execs'[e].calls = Append(execs[e].calls, execs[e].current_node_name)
                /\ execs'[e].evals = execs[e].evals
                /\ execs'[e].message = execs[e].message
       /\ execs[e].pc = "raised" => execs'[e] = execs[e]

\* C18: when the processor of the current node raises, the error reaches the
\* caller of execute: the graph does not catch it, invokes the processor
\* once, evaluates no edge of that node and invokes no further processor.
C18_ProcessorErrorPropagates == [][C18_RaisingStep]_vars

\* An execution went through a first node and was left by the exception of
\* the second node's processor, which has a matching outgoing edge.
C18_Witness ==
    \E e \in Execs :
       /\ execs[e].pc = "raised"
       /\ Len(execs[e].calls) = 2
       /\ execs[e].calls[1] /= execs[e].calls[2]
       /\ MatchingAt(ExecGraph(e), execs[e].current_node_name, execs[e].message) /= <<>>
       /\ execs[e].current_node_name \notin GraphEndNodes(heap, ExecGraph(e))

\* The evaluate call met a failure inside the condition's logic.
EvaluationFailure ==
    \/ c_cond.type = "LambdaCondition" /\ c_cond.returns = "raises"
    \/ c_cond.type = "ThresholdCondition"
          /\ (c_cond.found.kind /= "number" \/ c_cond.comparison \notin Comparisons)

\* C19: evaluate never raises; a failure inside the condition's logic gives
\* a result with matched=false and confidence 0.
C19_EvaluateNeverRaises ==
    c_out.by \in {"LambdaCondition.evaluate", "ThresholdCondition.evaluate",
                  "CompoundCondition.evaluate"}
    => /\ ~c_out.raised
       /\ EvaluationFailure
             => ~c_out.result.matched /\ c_out.result.confidence = 0

\* The tokens of the claim, and the response as the parser reads it.
Affirmative == {<<"y", "e", "s">>, <<"t", "r", "u", "e">>, <<"c", "o", "r", "r", "e", "c", "t">>, <<"p", "o", "s", "i", "t", "i", "v", "e">>, <<"1">>, <<"y">>}
Negative == {<<"n", "o">>, <<"f", "a", "l", "s", "e">>, <<"i", "n", "c", "o", "r", "r", "e", "c", "t">>, <<"n", "e", "g", "a", "t", "i", "v", "e">>, <<"0">>, <<"n">>}
ResponseRead == Strip(Lower(c_cond.response))
Parsed == c_out.by = "LLMCondition._parse_response" /\ c_cond.expected_labels = <<>>

\* C20, on the responses that are one token or hold no token: without a
\* label set, an affirmative token gives matched=true with confidence 0.9, a
\* negative token gives matched=false with confidence 0.9, and a response
\* with no token gives matched=false with confidence 0.5.
C20_YesNoFallback ==
    Parsed
    => /\ ResponseRead \in Affirmative
             => c_out.result.matched /\ 10 * c_out.result.confidence = 9 * One
       /\ ResponseRead \in Negative
             => ~c_out.result.matched /\ 10 * c_out.result.confidence = 9 * One
       /\ (\A t \in Affirmative \cup Negative : ~Contains(t, ResponseRead))
             => ~c_out.result.matched /\ 2 * c_out.result.confidence = One

(***************************************************************************)
(* Properties of the PluginManager registry (SpecRegistry, SpecPlugin).    *)
(***************************************************************************)
Registered == DOMAIN manager
StatusOf(name) == objects[manager[name].instance].status

\* Every plugin in the registry has status VALIDATED.
C21_RegisteredValidated == \A name \in Registered : StatusOf(name) = "validated"

\* What one register, unload, get, enable or disable call does to the registry.
C21_Call ==
    LET name == p_out'.name
    IN /\ (p_out'.op = "register" /\ ~p_out'.raised)
            => DOMAIN manager' = Registered \cup {name}
       /\ (p_out'.op = "register" /\ p_out'.raised) => manager' = manager
       /\ p_out'.op = "unload"
            => IF name \in Registered
               THEN /\ ~p_out'.raised
                    /\ DOMAIN manager' = Registered \ {name}
                    /\ objects'[manager[name].instance].status = "cleaned"
               ELSE p_out'.raised /\ manager' = manager
       /\ p_out'.op \in {"get", "enable", "disable"}
            => /\ p_out'.raised <=> name \notin Registered
               /\ DOMAIN manager' = Registered
               /\ p_out'.raised => manager' = manager

\* C21: after any sequence of register and unload calls the manager holds
\* exactly the names registered and not unloaded since, every registered
\* plugin has status VALIDATED, a plugin removed by unload has status
\* CLEANED, and unload, get, enable and disable of a name that is not
\* registered raise and leave the registry unchanged.
C21_RegistryContract == []C21_RegisteredValidated /\ [][C21_Call]_vars

\* C30: reload(name) of a registered plugin either returns an instance that
\* is registered under name afterwards, or raises and leaves the registry as
\* it was before the call; the name is never removed from the registry.
C30_ReloadKeepsRegistered ==
    [][(p_out'.op = "reload" /\ p_out'.name \in Registered)
         => IF p_out'.raised
            THEN manager' = manager
            ELSE /\ p_out'.name \in DOMAIN manager'
                 /\ manager'[p_out'.name].instance = p_out'.value]_vars

(***************************************************************************)
(* Properties of edges with Condition objects (SpecMatch).                 *)
(***************************************************************************)
\* The edges whose Condition gives a ConditionResult with matched = true for
\* the message.
MatchedIdx ==
    {i \in 1..Len(r_edges) :
        LET outcome == CallCondition(r_edges[i].condition, r_msg)
        IN ~outcome.raised /\ outcome.value}

\* C22: an edge whose condition is a Condition evaluator matches iff the
\* ConditionResult for the message has matched = true: what a resolver
\* returns is the destination of an edge with matched = true, or the
\* fallback; an edge with matched = false is never selected.
C22_UnmatchedNeverSelected ==
    \A k \in 1..Len(returned) :
       \/ returned[k].result = resolver.fallback_edge
       \/ \E i \in MatchedIdx : returned[k].result = r_edges[i].destination

(***************************************************************************)
(* Termination of WorkflowGraph.execute (SpecExecFair).                    *)
(***************************************************************************)
\* The destinations of the edges of node n.
Successors(g, n) ==
    IF HasKey(GraphEdges(heap, g), n)
    THEN {GraphEdges(heap, g)[n][i].destination :
             i \in 1..Len(GraphEdges(heap, g)[n])}
    ELSE {}
RECURSIVE ReachFrom(_, _, _)
ReachFrom(g, S, k) ==
    IF k = 0 THEN S
    ELSE ReachFrom(g, S \cup UNION {Successors(g, n) : n \in S}, k - 1)
\* The nodes of S and those reachable from them along edges.
Reachable(g, S) == ReachFrom(g, S, Cardinality(DOMAIN GraphNodes(heap, g)))
Acyclic(g) ==
    \A n \in DOMAIN GraphNodes(heap, g) : n \notin Reachable(g, Successors(g, n))
Started(e) == execs[e].pc \in {"running", "done"}
Visited(e) == {execs[e].calls[i] : i \in 1..Len(execs[e].calls)}

\* On a graph without a cycle an execution processes at most as many nodes
\* as the graph has.
C23_AcyclicVisitsBounded ==
    \A e \in Execs :
       (Started(e) /\ Acyclic(ExecGraph(e)))
          => LET n == Cardinality(DOMAIN GraphNodes(heap, ExecGraph(e)))
             IN /\ Len(execs[e].calls) <= n
                /\ execs[e].pc = "running" => Len(execs[e].calls) < n

\* On a graph without a cycle every started execution halts.
C23_AcyclicHalts ==
    \A e \in Execs :
       (execs[e].pc = "running" /\ Acyclic(ExecGraph(e))) ~> (execs[e].pc = "done")

\* The execution has processed a node with an always-true back-edge: an edge
\* to a node it processed before (or to the node itself), with no terminal
\* node on the cycle the edge closes.
AtAlwaysBackEdge(e) ==
    \E j \in 1..Len(execs[e].calls) : \E k \in 1..j :
       LET n == execs[e].calls[j]
           edges == GraphEdges(heap, ExecGraph(e))
       IN /\ HasKey(edges, n)
          /\ \E i \in 1..Len(edges[n]) :
                /\ edges[n][i].condition = "always"
                /\ edges[n][i].destination = execs[e].calls[k]
          /\ \A m \in k..j :
                execs[e].calls[m] \notin GraphEndNodes(heap, ExecGraph(e))

\* An execution that has come to an always-true back-edge never halts.
C23_BackEdgeNeverHalts ==
    \A e \in Execs :
       (Started(e) /\ AtAlwaysBackEdge(e)) => execs[e].pc /= "done"

\* C23 as stated: on a graph without a cycle execute halts after at most as
\* many nodes as the graph has; on a graph with an always-true back-edge and
\* no terminal node on the cycle it never halts.
C23_HaltsUnlessBackEdge ==
    /\ []C23_AcyclicVisitsBounded
    /\ C23_AcyclicHalts
    /\ []C23_BackEdgeNeverHalts

\* Every node the execution can come to is non-terminal and has an edge
\* whose condition is always true.
ClosedLoop(g) ==
    \A n \in Reachable(g, {g.start_node}) :
       /\ n \notin GraphEndNodes(heap, g)
       /\ HasKey(GraphEdges(heap, g), n)
       /\ \E i \in 1..Len(GraphEdges(heap, g)[n]) :
             GraphEdges(heap, g)[n][i].condition = "always"

\* On such a graph a started execution is in its loop for ever: it has not
\* halted and has a next iteration.
C23_ClosedLoopNeverHalts ==
    \A e \in Execs :
       (Started(e) /\ ClosedLoop(ExecGraph(e)))
          => /\ execs[e].pc = "running"
             /\ ExecuteStep(heap, ExecGraph(e), execs[e]) /= {}
             /\ \A x \in ExecuteStep(heap, ExecGraph(e), execs[e]) :
                   x.pc = "running"

\* C23, amended: on a graph without a cycle execute halts after at most as
\* many nodes as the graph has; an execution halts only at a terminal node
\* or at a node none of whose edges matches, so it never halts on a graph
\* where every reachable node is non-terminal and has an always-true edge.
\* An always-true back-edge alone does not keep the execution on its cycle:
\* another matching edge of the node can be the one selected.
C23_HaltsUnlessClosedLoop ==
    /\ []C23_AcyclicVisitsBounded
    /\ C23_AcyclicHalts
    /\ []C23_ClosedLoopNeverHalts

\* An execution on a closed loop that is still running after MaxSteps
\* iterations.
C23_Witness ==
    \E e \in Execs :
       /\ execs[e].pc = "running"
       /\ ClosedLoop(ExecGraph(e))
       /\ Len(execs[e].calls) = MaxSteps

(***************************************************************************)
(* Properties of the probabilistic resolvers and of the graph's own        *)
(* probabilistic resolution (SpecCalls).                                   *)
(***************************************************************************)
\* The edges of the list that match the message, in registration order.
Matching == MatchingEdges(r_edges, r_msg)

\* C24: a LoadBalancingResolver with normalize_weights = True treats every
\* matching edge as having weight 1.0, in resolve and in
\* resolve_with_confidence alike: of k matching edges the i-th is selected
\* for the draws in the i-th of k equal parts of the range of the draw, and
\* resolve_with_confidence reports confidence 1/k.
C24_NormalizedIsUniform ==
    \A c \in 1..Len(returned) :
       (/\ returned[c].by \in {"balanced.resolve", "balanced.resolve_with_confidence"}
        /\ returned[c].normalize_weights
        /\ Matching /= <<>>)
          => LET k == Len(Matching)
                 total == IF returned[c].by = "balanced.resolve"
                          THEN k ELSE SumWeights(Matching)
             IN /\ returned[c].drew
                /\ \E i \in 1..k :
                      /\ returned[c].result = Matching[i].destination
                      /\ i = 1 \/ 2 * total * (i - 1) < k * returned[c].r2
                      /\ k * returned[c].r2 <= 2 * total * i
                /\ returned[c].by = "balanced.resolve_with_confidence"
                      => returned[c].confidence = One \div k

\* C28: graph resolution in PROBABILISTIC mode returns what
\* ProbabilisticResolver(fallback_edge=None).resolve returns for the same
\* edge list, message and draw; in particular None when the weights of the
\* matching edges sum to <= 0.
C28_GraphAgreesWithResolver ==
    \A c \in 1..Len(returned) :
       returned[c].by = "graph"
          => /\ returned[c].result =
                   ProbabilisticResolver_resolve_draw(None, r_edges, r_msg,
                                                      returned[c].r2).result
             /\ (Matching /= <<>> /\ SumWeights(Matching) <= 0)
                   => returned[c].result = None

\* C29: what resolve and resolve_with_confidence return is the fallback or
\* the destination of a matching edge of weight > 0; while the total
\* matching weight is positive an edge of weight 0 is not selected, for
\* every draw.
C29_PositiveWeightSelected ==
    \A c \in 1..Len(returned) :
       returned[c].by \in {"resolve", "resolve_with_confidence"}
          => IF returned[c].drew
             THEN \E i \in 1..Len(Matching) :
                     /\ Matching[i].weight > 0
                     /\ returned[c].result = Matching[i].destination
             ELSE returned[c].result = resolver.fallback_edge

(***************************************************************************)
(* Tie-break of deterministic resolution (SpecResolve).                    *)
(***************************************************************************)
\* The first registered of the matching edges of smallest priority.
FirstOfSmallest ==
    CHOOSE i \in MatchingIdx :
        /\ \A j \in MatchingIdx : r_edges[i].priority <= r_edges[j].priority
        /\ \A j \in MatchingIdx : j < i => r_edges[j].priority > r_edges[i].priority

\* C25: among matching edges that share the smallest priority the one
\* registered first wins, and _resolve_next_node in DETERMINISTIC mode
\* returns what DeterministicResolver(fallback_edge=None).resolve returns
\* for the same edge list and message.
C25_FirstRegisteredWins ==
    /\ (Deterministic /\ MatchingIdx /= {})
          => r_out.result = r_edges[FirstOfSmallest].destination
    /\ r_out.by = "graph"
          => r_out.result = DeterministicResolver_resolve(None, r_edges, r_msg).result
    /\ r_out.by = "DeterministicResolver"
          => \/ r_out.result = resolve_next_node_draw([n \in {ResolveSource} |-> r_edges],
                                    "deterministic", ResolveSource, r_msg, 0)
             \/ MatchingIdx = {} /\ r_out.result = "fallback"

\* Two matching edges of the same, smallest priority lead to different
\* nodes, and the graph has returned the one registered first.
C25_Witness ==
    /\ r_out.by = "graph"
    /\ \E i \in MatchingIdx : \E j \in MatchingIdx :
          /\ i < j
          /\ r_edges[i].priority = r_edges[j].priority
          /\ r_edges[i].destination /= r_edges[j].destination
          /\ \A k \in MatchingIdx : r_edges[i].priority <= r_edges[k].priority
          /\ i = FirstOfSmallest
          /\ r_out.result = r_edges[i].destination

(***************************************************************************)
(* Builder invariants (Spec).                                              *)
(***************************************************************************)
TerminalNames ==
    {n \in DOMAIN heap[builder.nodes] : heap[builder.nodes][n].is_terminal}

\* C26: after any sequence of builder calls, add_node with a used name
\* included, end_nodes is exactly the set of names whose registered
\* GraphNode is terminal.
C26_EndNodesAreTerminalNodes == heap[builder.end_nodes] = TerminalNames

\* C27: a builder call that raises leaves the builder as it was: no edge
\* of a failed add_conditional_edges is added to the source node, and a
\* failed add_edge or set_start changes nothing either.
\* The edges registered for a source; a missing key and an empty list both
\* stand for no edge.
EdgesOf(h, source) ==
    IF HasKey(h[builder.edges], source) THEN h[builder.edges][source] ELSE <<>>

C27_FailedCallChangesNothing ==
    [][raised' => /\ builder' = builder
                  /\ heap'[builder.nodes] = heap[builder.nodes]
                  /\ heap'[builder.end_nodes] = heap[builder.end_nodes]
                  /\ \A source \in Nodes : EdgesOf(heap', source) = EdgesOf(heap, source)]_vars

====
